---- MODULE Spec2Model ----
(***************************************************************************)
(* Model of the deterministic spec-matching engine of the RFP technical    *)
(* agent (src/utils/match_engine.py, src/utils/attribute_utils.py,         *)
(* src/config.py, src/models.py).                                          *)
(*                                                                         *)
(* Representation.                                                         *)
(*  - A Python str is a sequence of one-character strings, so that lower,  *)
(*    strip, replace and float are computed character by character.        *)
(*  - An Optional value is a tagged record: None, PyStr(s) or PyInt(n).        *)
(*  - A weight is an integer number of 1/WeightScale (0.25 is 2500).       *)
(*  - A credit is an integer number of tenths (1.0 is 10, 0.8 is 8).       *)
(*  - A score is an integer number of hundredths of a percent (95.0 is     *)
(*    9500), which is what round(score * 100, 2) can return.               *)
(*  - A parsed magnitude is an exact decimal [num, den] (11.05 is          *)
(*    [1105, 100]).  Inputs whose outcome depends on the binary rounding   *)
(*    of floats (magnitudes exactly 0.1 apart, weight sums exactly 0.01    *)
(*    from 1.0, scores exactly halfway between two hundredths) are not in  *)
(*    the input sets.                                                      *)
(***************************************************************************)
EXTENDS Integers, Sequences, FiniteSets, TLC

VARIABLES
  engine,     \* "none" | "ready" | "ValueError": outcome of SpecMatchEngine(...)
  weights,    \* self.weights of the constructed engine (<<>> when there is none)
  pc,         \* caller position: "idle" | "scored" | "matched"
  rfp_attrs,  \* requirement record of the call in progress
  oem_attrs,  \* candidate record of the call in progress
  result,     \* what the call returned
  faiss,      \* whether `import faiss` succeeded in this process
  argsort,    \* how np.argsort orders equal keys in this process
  hashseed,   \* the hash seed of this process
  db,         \* the VectorDatabase instances
  files,      \* the files at the snapshot path
  embedder,   \* a SimpleEmbedder used on its own
  task,       \* the build or load that a second thread is in the middle of
  ret         \* the call on the index in progress and what it returned

engineVars == <<engine, weights, pc, rfp_attrs, oem_attrs, result>>

indexVars == <<faiss, argsort, hashseed, db, files, embedder, task, ret>>

vars == <<engine, weights, pc, rfp_attrs, oem_attrs, result,
         faiss, argsort, hashseed, db, files, embedder, task, ret>>

---------------------------------------------------------------------------
(* Python values *)

None == [kind |-> "None"]

PyStr(s) == [kind |-> "str", val |-> s]

PyInt(n) == [kind |-> "int", val |-> n]

IsNone(x) == x.kind = "None"

UpperChars == <<"A","B","C","D","E","F","G","H","I","J","K","L","M",
                "N","O","P","Q","R","S","T","U","V","W","X","Y","Z">>

LowerChars == <<"a","b","c","d","e","f","g","h","i","j","k","l","m",
                "n","o","p","q","r","s","t","u","v","w","x","y","z">>

DigitChars == <<"0","1","2","3","4","5","6","7","8","9">>

IsSpace(c) == c = " "

IsDigit(c) == \E i \in 1..10 : DigitChars[i] = c

DigitVal(c) == (CHOOSE i \in 1..10 : DigitChars[i] = c) - 1

LowerChar(c) ==
  IF \E i \in 1..26 : UpperChars[i] = c
  THEN LowerChars[CHOOSE i \in 1..26 : UpperChars[i] = c]
  ELSE c

\* str.lower()
PyLower(s) == [i \in 1..Len(s) |-> LowerChar(s[i])]

RECURSIVE LStrip(_)
LStrip(s) == IF s # <<>> /\ IsSpace(Head(s)) THEN LStrip(Tail(s)) ELSE s

RECURSIVE RStrip(_)
RStrip(s) ==
  IF s # <<>> /\ IsSpace(s[Len(s)]) THEN RStrip(SubSeq(s, 1, Len(s) - 1)) ELSE s

\* str.strip()
PyStrip(s) == RStrip(LStrip(s))

StartsWith(s, p) == Len(s) >= Len(p) /\ SubSeq(s, 1, Len(p)) = p

\* str.replace(old, ""): every non-overlapping occurrence, left to right
RECURSIVE PyRemove(_, _)
PyRemove(s, old) ==
  IF s = <<>> THEN <<>>
  ELSE IF StartsWith(s, old) THEN PyRemove(SubSeq(s, Len(old) + 1, Len(s)), old)
  ELSE <<Head(s)>> \o PyRemove(Tail(s), old)

RECURSIVE Pow10(_)
Pow10(k) == IF k = 0 THEN 1 ELSE 10 * Pow10(k - 1)

RECURSIVE DigitsValue(_)
DigitsValue(s) ==
  IF s = <<>> THEN 0
  ELSE 10 * DigitsValue(SubSeq(s, 1, Len(s) - 1)) + DigitVal(s[Len(s)])

AllDigits(s) == \A i \in 1..Len(s) : IsDigit(s[i])

ValueError == [ok |-> FALSE]

\* the decimal sign * ip.fp, or ValueError when ip and fp are not digits only
\* or are both empty
MakeFloat(sign, ip, fp) ==
  IF AllDigits(ip) /\ AllDigits(fp) /\ Len(ip) + Len(fp) >= 1
  THEN [ok  |-> TRUE,
        num |-> sign * (DigitsValue(ip) * Pow10(Len(fp)) + DigitsValue(fp)),
        den |-> Pow10(Len(fp))]
  ELSE ValueError

\* the position of the first point of u, Len(u) + 1 when it has none
PointIndex(u) ==
  IF \E i \in 1..Len(u) : u[i] = "."
  THEN CHOOSE i \in 1..Len(u) : u[i] = "." /\ \A j \in 1..(i - 1) : u[j] # "."
  ELSE Len(u) + 1

SplitAt(sign, u, p) == MakeFloat(sign, SubSeq(u, 1, p - 1), SubSeq(u, p + 1, Len(u)))

HasSign(t) == t # <<>> /\ Head(t) \in {"-", "+"}

SignedFloat(t) ==
  SplitAt(IF t # <<>> /\ Head(t) = "-" THEN -1 ELSE 1,
          IF HasSign(t) THEN Tail(t) ELSE t,
          PointIndex(IF HasSign(t) THEN Tail(t) ELSE t))

\* float(s) for decimal literals: surrounding blanks, an optional sign,
\* digits with at most one point and at least one digit; anything else
\* raises ValueError.
PyFloat(s) == SignedFloat(PyStrip(s))

\* a.num/a.den - b.num/b.den over the common denominator a.den * b.den
DiffNum(a, b) == a.num * b.den - b.num * a.den

Abs(n) == IF n < 0 THEN -n ELSE n

---------------------------------------------------------------------------
(* src/config.py *)

\* weights are counted in 1/WeightScale, so 0.25 is 2500
WeightScale == 10000

\* a credit of 1.0 is CreditOne tenths
CreditOne == 10

MINIMUM_MATCH_THRESHOLD == 6000

ATTRIBUTE_WEIGHTS ==
  << [name |-> "voltage",            w |-> 2500],
     [name |-> "conductor_material", w |-> 2000],
     [name |-> "cross_section",      w |-> 1500],
     [name |-> "core_count",         w |-> 1500],
     [name |-> "insulation",         w |-> 1000],
     [name |-> "armouring",          w |-> 1000],
     [name |-> "sheathing",          w |-> 500] >>

\* the dict literal as (key, value) pairs; a repeated key repeats its pair
NORMALIZED_VALUES ==
  { <<<<"a","l","u","m","i","n","u","m">>,
      <<"a","l">>>>,
    <<<<"a","l","u","m","i","n","i","u","m">>,
      <<"a","l">>>>,
    <<<<"a","l">>,
      <<"a","l">>>>,
    <<<<"c","o","p","p","e","r">>,
      <<"c","u">>>>,
    <<<<"c","u">>,
      <<"c","u">>>>,
    <<<<"x","l","p","e">>,
      <<"x","l","p","e">>>>,
    <<<<"c","r","o","s","s"," ","l","i","n","k","e","d"," ","p","o","l","y","e","t","h","y","l","e","n","e">>,
      <<"x","l","p","e">>>>,
    <<<<"p","v","c">>,
      <<"p","v","c">>>>,
    <<<<"p","o","l","y","v","i","n","y","l"," ","c","h","l","o","r","i","d","e">>,
      <<"p","v","c">>>>,
    <<<<"e","p","r">>,
      <<"e","p","r">>>>,
    <<<<"e","t","h","y","l","e","n","e"," ","p","r","o","p","y","l","e","n","e"," ","r","u","b","b","e","r">>,
      <<"e","p","r">>>>,
    <<<<"g","i"," ","s","t","r","i","p">>,
      <<"g","i","_","s","t","r","i","p">>>>,
    <<<<"g","a","l","v","a","n","i","z","e","d"," ","i","r","o","n"," ","s","t","r","i","p">>,
      <<"g","i","_","s","t","r","i","p">>>>,
    <<<<"g","a","l","v","a","n","i","s","e","d"," ","i","r","o","n"," ","s","t","r","i","p">>,
      <<"g","i","_","s","t","r","i","p">>>>,
    <<<<"g","i"," ","w","i","r","e">>,
      <<"g","i","_","w","i","r","e">>>>,
    <<<<"g","a","l","v","a","n","i","z","e","d"," ","i","r","o","n"," ","w","i","r","e">>,
      <<"g","i","_","w","i","r","e">>>>,
    <<<<"g","a","l","v","a","n","i","s","e","d"," ","i","r","o","n"," ","w","i","r","e">>,
      <<"g","i","_","w","i","r","e">>>>,
    <<<<"s","t","e","e","l"," ","w","i","r","e">>,
      <<"s","w","a">>>>,
    <<<<"s","w","a">>,
      <<"s","w","a">>>>,
    <<<<"s","t","e","e","l"," ","w","i","r","e"," ","a","r","m","o","u","r","e","d">>,
      <<"s","w","a">>>>,
    <<<<"s","t","e","e","l"," ","w","i","r","e"," ","a","r","m","o","u","r">>,
      <<"s","w","a">>>>,
    <<<<"u","n","a","r","m","o","u","r","e","d">>,
      <<"u","n","a","r","m","o","u","r","e","d">>>>,
    <<<<"n","o","n","e">>,
      <<"u","n","a","r","m","o","u","r","e","d">>>>,
    <<<<"p","e">>,
      <<"p","e">>>>,
    <<<<"p","o","l","y","e","t","h","y","l","e","n","e">>,
      <<"p","e">>>>,
    <<<<"l","s","z","h">>,
      <<"l","s","z","h">>>>,
    <<<<"l","o","w"," ","s","m","o","k","e"," ","z","e","r","o"," ","h","a","l","o","g","e","n">>,
      <<"l","s","z","h">>>> }

---------------------------------------------------------------------------
(* src/utils/attribute_utils.py *)

\* NORMALIZED_VALUES[normalized] for a key of the table, normalized otherwise
Canonical(normalized) ==
  IF \E e \in NORMALIZED_VALUES : e[1] = normalized
  THEN (CHOOSE e \in NORMALIZED_VALUES : e[1] = normalized)[2]
  ELSE normalized

\* normalize_value without the lookup in the table
normalize_value_nolookup(value) ==
  IF value = <<>> THEN <<>> ELSE PyStrip(PyLower(value))

normalize_value(value) ==
  IF value = <<>> THEN <<>> ELSE Canonical(PyStrip(PyLower(value)))

---------------------------------------------------------------------------
(* src/models.py *)

\* the fields of ExtractedAttributes, in declaration order
AttrFields == <<"voltage", "conductor_material", "cross_section", "core_count",
                "insulation", "armouring", "sheathing">>

FieldSet == {AttrFields[i] : i \in 1..Len(AttrFields)}

\* ExtractedAttributes(): every field None
ExtractedAttributes == [f \in FieldSet |-> None]

\* to_normalized_dict() followed by dict.get(attr_name): the value of a
\* field that is set, None for an unset field and for a name that is no field
DictGet(attrs, attr_name) ==
  IF attr_name \in DOMAIN attrs THEN attrs[attr_name] ELSE None

---------------------------------------------------------------------------
(* src/utils/match_engine.py *)

KV == <<"k","v">>

V == <<"v">>

SQMM == <<"s","q","m","m">>

\* the three outcomes after both magnitudes parsed: equal within 0.1,
\* candidate higher (credit `higher`), candidate lower
CompareMagnitudes(rfp_num, oem_num, higher) ==
  IF 10 * Abs(DiffNum(rfp_num, oem_num)) < rfp_num.den * oem_num.den
  THEN CreditOne
  ELSE IF DiffNum(oem_num, rfp_num) > 0 THEN higher
  ELSE 0

\* the credit with a text that is no number taken as equal to anything
CompareParsed_unparsed_equal(rfp_num, oem_num, higher) ==
  IF ~rfp_num.ok \/ ~oem_num.ok THEN CreditOne
  ELSE CompareMagnitudes(rfp_num, oem_num, higher)

\* the credit once float() has been applied to both sides
CompareParsed(rfp_num, oem_num, higher) ==
  IF ~rfp_num.ok \/ ~oem_num.ok THEN 0
  ELSE CompareMagnitudes(rfp_num, oem_num, higher)

\* _compare_voltage with the cross-section credit for a higher candidate
_compare_voltage_overcredit(rfp_voltage, oem_voltage) ==
  CompareParsed(PyFloat(PyRemove(PyRemove(rfp_voltage, KV), V)),
                PyFloat(PyRemove(PyRemove(oem_voltage, KV), V)), 9)

_compare_voltage(rfp_voltage, oem_voltage) ==
  CompareParsed(PyFloat(PyRemove(PyRemove(rfp_voltage, KV), V)),
                PyFloat(PyRemove(PyRemove(oem_voltage, KV), V)), 8)

\* _compare_cross_section with the voltage credit for a higher candidate
_compare_cross_section_undercredit(rfp_cs, oem_cs) ==
  CompareParsed(PyFloat(PyRemove(rfp_cs, SQMM)), PyFloat(PyRemove(oem_cs, SQMM)), 8)

_compare_cross_section(rfp_cs, oem_cs) ==
  CompareParsed(PyFloat(PyRemove(rfp_cs, SQMM)), PyFloat(PyRemove(oem_cs, SQMM)), 9)

\* the value compared: normalize_value of a str, the value itself otherwise
Normalized(value) ==
  IF value.kind = "str" THEN PyStr(normalize_value(value.val)) ELSE value

\* the comparison of the two normalized values, after the exact-match test
CompareUnequal(attr_name, rfp_normalized, oem_normalized) ==
  IF attr_name = "voltage"
    THEN _compare_voltage(rfp_normalized.val, oem_normalized.val)
  ELSE IF attr_name = "cross_section"
    THEN _compare_cross_section(rfp_normalized.val, oem_normalized.val)
  ELSE IF attr_name = "core_count"
    THEN (IF rfp_normalized = oem_normalized THEN CreditOne ELSE 0)
  ELSE 0

CompareNormalized(attr_name, rfp_normalized, oem_normalized) ==
  IF rfp_normalized = oem_normalized THEN CreditOne
  ELSE CompareUnequal(attr_name, rfp_normalized, oem_normalized)

\* _compare_attribute without the exact-match return
_compare_attribute_noexact(attr_name, rfp_value, oem_value) ==
  CompareUnequal(attr_name, Normalized(rfp_value), Normalized(oem_value))

\* _compare_attribute giving half credit to values that differ
_compare_attribute_lenient(attr_name, rfp_value, oem_value) ==
  IF CompareNormalized(attr_name, Normalized(rfp_value), Normalized(oem_value)) = 0
  THEN 5
  ELSE CompareNormalized(attr_name, Normalized(rfp_value), Normalized(oem_value))

_compare_attribute(attr_name, rfp_value, oem_value) ==
  CompareNormalized(attr_name, Normalized(rfp_value), Normalized(oem_value))

\* round(x, 2) of a score counted in 1/(WeightScale * CreditOne): the nearest
\* hundredth of a percent, an exact half going to the even neighbour
Round2(score) ==
  IF score % 10 < 5 THEN score \div 10
  ELSE IF score % 10 > 5 THEN (score \div 10) + 1
  ELSE IF (score \div 10) % 2 = 0 THEN score \div 10
  ELSE (score \div 10) + 1

\* the branches with a partial credit listed as matched as well
Award_listed_twice(acc, attr_name, weight, match_result) ==
  IF match_result = CreditOne
    THEN [acc EXCEPT !.score = @ + weight * CreditOne,
                     !.matched = Append(@, attr_name)]
  ELSE IF match_result > 0
    THEN [acc EXCEPT !.score = @ + weight * match_result,
                     !.matched = Append(@, attr_name),
                     !.mismatched = Append(@, attr_name \o " (partial)")]
  ELSE [acc EXCEPT !.mismatched = Append(@, attr_name)]

\* the branches on match_result
Award(acc, attr_name, weight, match_result) ==
  IF match_result = CreditOne
    THEN [acc EXCEPT !.score = @ + weight * CreditOne,
                     !.matched = Append(@, attr_name)]
  ELSE IF match_result > 0
    THEN [acc EXCEPT !.score = @ + weight * match_result,
                     !.mismatched = Append(@, attr_name \o " (partial)")]
  ELSE [acc EXCEPT !.mismatched = Append(@, attr_name)]

\* the loop body giving a candidate's missing value the full weight
ScoreStep_symmetric(acc, attr_name, weight, rfp_value, oem_value) ==
  IF IsNone(rfp_value)
    THEN [acc EXCEPT !.score = @ + weight * CreditOne]
  ELSE IF IsNone(oem_value)
    THEN [acc EXCEPT !.score = @ + weight * CreditOne]
  ELSE Award(acc, attr_name, weight,
             _compare_attribute(attr_name, rfp_value, oem_value))

\* the loop body giving nothing for an attribute the requirement leaves out
ScoreStep_penalised(acc, attr_name, weight, rfp_value, oem_value) ==
  IF IsNone(rfp_value)
    THEN acc
  ELSE IF IsNone(oem_value)
    THEN [acc EXCEPT !.missing = Append(@, attr_name)]
  ELSE Award(acc, attr_name, weight,
             _compare_attribute(attr_name, rfp_value, oem_value))

\* one iteration of the loop over self.weights.items()
ScoreStep(acc, attr_name, weight, rfp_value, oem_value) ==
  IF IsNone(rfp_value)
    THEN [acc EXCEPT !.score = @ + weight * CreditOne]
  ELSE IF IsNone(oem_value)
    THEN [acc EXCEPT !.missing = Append(@, attr_name)]
  ELSE Award(acc, attr_name, weight,
             _compare_attribute(attr_name, rfp_value, oem_value))

RECURSIVE ScoreLoop(_, _, _, _)
ScoreLoop(ws, i, rfp_dict, oem_dict) ==
  IF i = 0
  THEN [score |-> 0, matched |-> <<>>, mismatched |-> <<>>, missing |-> <<>>]
  ELSE ScoreStep(ScoreLoop(ws, i - 1, rfp_dict, oem_dict), ws[i].name, ws[i].w,
                 DictGet(rfp_dict, ws[i].name), DictGet(oem_dict, ws[i].name))

\* final_score = round(score * 100, 2) and the returned tuple
Returned(acc) ==
  [score      |-> Round2(acc.score),
   matched    |-> acc.matched,
   mismatched |-> acc.mismatched,
   missing    |-> acc.missing]

calculate_match_score(ws, rfp, oem) == Returned(ScoreLoop(ws, Len(ws), rfp, oem))

\* the status with the first threshold exclusive
Classify_strict(score) ==
  IF score > 9500 THEN "exact_match"
  ELSE IF score >= 8000 THEN "close_match"
  ELSE IF score >= MINIMUM_MATCH_THRESHOLD THEN "partial_match"
  ELSE "no_match"

\* the status chosen from the score
Classify(score) ==
  IF score >= 9500 THEN "exact_match"
  ELSE IF score >= 8000 THEN "close_match"
  ELSE IF score >= MINIMUM_MATCH_THRESHOLD THEN "partial_match"
  ELSE "no_match"

\* attr.replace(' (partial)', ''): the weighted name the entry was built from
StripPartial(ws, entry) ==
  IF \E i \in 1..Len(ws) : entry = ws[i].name \o " (partial)"
  THEN ws[CHOOSE i \in 1..Len(ws) : entry = ws[i].name \o " (partial)"].name
  ELSE entry

\* the note of one attribute: its name and the two values it cites
Note(attr, rfp, oem_val) ==
  [attr |-> attr, rfp_val |-> DictGet(rfp, attr), oem_val |-> oem_val]

\* one note per mismatched entry, then one per missing entry
_generate_deviation_notes(ws, rfp, oem, mismatched, missing) ==
  [i \in 1..(Len(mismatched) + Len(missing)) |->
     IF i <= Len(mismatched)
     THEN Note(StripPartial(ws, mismatched[i]), rfp,
               DictGet(oem, StripPartial(ws, mismatched[i])))
     ELSE Note(missing[i - Len(mismatched)], rfp, None)]

\* the SpecMatchResult built from what calculate_match_score returned
SpecMatchResult(ws, rfp, oem, r) ==
  [match_score           |-> r.score,
   match_status          |-> Classify(r.score),
   matched_attributes    |-> r.matched,
   mismatched_attributes |-> r.mismatched,
   missing_attributes    |-> r.missing,
   deviation_notes       |->
     _generate_deviation_notes(ws, rfp, oem, r.mismatched, r.missing)]

match_product(ws, rfp, oem) ==
  SpecMatchResult(ws, rfp, oem, calculate_match_score(ws, rfp, oem))

\* SpecMatchEngine.__init__: the weights kept, and whether they pass
SelfWeights(arg) == IF arg = <<>> THEN ATTRIBUTE_WEIGHTS ELSE arg

RECURSIVE SumWeights(_)
SumWeights(ws) ==
  IF ws = <<>> THEN 0 ELSE ws[Len(ws)].w + SumWeights(SubSeq(ws, 1, Len(ws) - 1))

\* the 0.01 of the check, in weight units
Tolerance == WeightScale \div 100

\* the check without abs(): only a sum that is too large is rejected
WeightsRejected_upper(ws) == SumWeights(ws) - WeightScale > Tolerance

WeightsRejected(ws) == Abs(SumWeights(ws) - WeightScale) > Tolerance

---------------------------------------------------------------------------
(* Inputs *)

\* core_count values are 1..MaxCores
MaxCores == 4

S11kv == <<"1","1","k","v">>

S33kv == <<"3","3","k","v">>

S300sqmm == <<"3","0","0","s","q","m","m">>

S400sqmm == <<"4","0","0","s","q","m","m">>

S240sqmm == <<"2","4","0","s","q","m","m">>

\* the values a field is given, besides None
FieldValues(f) ==
  CASE f = "voltage" ->
         {PyStr(S11kv), PyStr(S33kv), PyStr(<<"1",".","1","k","v">>),
          PyStr(<<"1","1",".","0","5","k","v">>), PyStr(<<"1","1"," ","k","V">>),
          PyStr(<<"4","1","5","v">>), PyStr(<<"l","v">>)}
    [] f = "conductor_material" ->
         {PyStr(<<"a","l">>), PyStr(<<"c","u">>),
          PyStr(<<"A","l","u","m","i","n","i","u","m">>),
          PyStr(<<"A","l","u","m","i","n","u","m">>)}
    [] f = "cross_section" ->
         {PyStr(S300sqmm), PyStr(S400sqmm), PyStr(S240sqmm),
          PyStr(<<"3","0","0",".","0","5","s","q","m","m">>),
          PyStr(<<"3","0","0","m","m","2">>)}
    [] f = "core_count" -> {PyInt(n) : n \in 1..MaxCores}
    [] f = "insulation" ->
         {PyStr(<<"x","l","p","e">>), PyStr(<<"p","v","c">>),
          PyStr(<<" ","X","L","P","E"," ">>),
          PyStr(<<"C","r","o","s","s"," ","L","i","n","k","e","d"," ",
                  "P","o","l","y","e","t","h","y","l","e","n","e">>)}
    [] f = "armouring" ->
         {PyStr(<<"g","i","_","s","t","r","i","p">>), PyStr(<<"s","w","a">>),
          PyStr(<<"G","I"," ","S","t","r","i","p">>), PyStr(<<"N","o","n","e">>)}
    [] f = "sheathing" ->
         {PyStr(<<"p","v","c">>), PyStr(<<"p","e">>), PyStr(<<"P","V","C">>)}

\* the fully specified record of the component tests
FullRec ==
  [voltage            |-> PyStr(S11kv),
   conductor_material |-> PyStr(<<"a","l">>),
   cross_section      |-> PyStr(S300sqmm),
   core_count         |-> PyInt(3),
   insulation         |-> PyStr(<<"x","l","p","e">>),
   armouring          |-> PyStr(<<"g","i","_","s","t","r","i","p">>),
   sheathing          |-> PyStr(<<"p","v","c">>)]

\* a record and the records that differ from it in one field
Near(base) ==
  {base} \cup UNION {{[base EXCEPT ![f] = v] : v \in FieldValues(f) \cup {None}} :
                     f \in FieldSet}

Records == Near(FullRec) \cup Near(ExtractedAttributes)

WithWeight(ws, i, w) == [ws EXCEPT ![i].w = w]

\* the defaults with one weight moved by d
Shifted(i, d) == WithWeight(ATTRIBUTE_WEIGHTS, i, ATTRIBUTE_WEIGHTS[i].w + d)

\* the defaults with d moved from weight i to the next weight (the sum stays)
Transferred(i, d) ==
  LET j == (i % Len(ATTRIBUTE_WEIGHTS)) + 1
  IN  WithWeight(Shifted(i, -d), j, ATTRIBUTE_WEIGHTS[j].w + d)

Shifts == {-5000, -101, -99, 99, 101, 5000}

Transfers == {1000}

\* the weights argument of the constructor; <<>> is None or {}
WeightArgs ==
  {<<>>}
  \cup {Shifted(i, d) : i \in {1, 3, 7}, d \in Shifts}
  \cup {Transferred(i, d) : i \in 1..Len(ATTRIBUTE_WEIGHTS), d \in Transfers}
  \cup { <<[name |-> "voltage", w |-> 10000]>>,
         <<[name |-> "voltage", w |-> 15000], [name |-> "sheathing", w |-> -5000]>>,
         <<[name |-> "colour", w |-> 4000], [name |-> "core_count", w |-> 6000]>> }

---------------------------------------------------------------------------
(* src/utils/vector_db.py                                                  *)
(*                                                                         *)
(* Representation.                                                         *)
(*  - A float of the embedder is a fixed-point integer: a term frequency,  *)
(*    an idf and a raw weight count 1/Scale, a component of a normalized   *)
(*    vector counts 1/VecOne, a norm counts 1/(100 * Scale); a quotient is *)
(*    cut toward zero.  Two texts with the same tokens get the same        *)
(*    vector, as in the program.  Distances and similarities are compared  *)
(*    to three decimals: values that are equal as real numbers are equal   *)
(*    here.                                                                *)
(*  - A numpy vector is the function from the indices that hold a value    *)
(*    other than 0 to that value; every other index holds 0.               *)
(*  - A dict is a function; the dict {} is <<>>.                           *)
(*  - An OEMProduct is immutable; a list of products holds their sku_id,   *)
(*    looked up with OEMProduct(sku_id).                                   *)
(*  - What a call returns is [value |-> v]; what it raises is              *)
(*    [raised |-> error].                                                  *)
(***************************************************************************)

EMBEDDING_DIMENSION == 384

TOP_K_CANDIDATES == 5

TOP_N_RECOMMENDATIONS == 3

Scale == 1000

VecOne == 10000

\* np.log(n / d) for n, d in 1..13, in 1/Scale
np_log(n, d) ==
  LET ln == <<0, 693, 1099, 1386, 1609, 1792, 1946, 2079, 2197, 2303, 2398,
              2485, 2565>>
  IN ln[n] - ln[d]

\* a / b cut toward zero, b > 0
Div(a, b) == IF a >= 0 THEN a \div b ELSE -((-a) \div b)

\* the first argument whatever the second
Min_first(a, b) == a

\* min(a, b)
Min(a, b) == IF a < b THEN a ELSE b

\* the function f with its values computed once: the same function
Table(f) == f @@ <<>>

RECURSIVE Sum(_, _)
\* the sum of the values of f on S
Sum(f, S) ==
  IF S = {} THEN 0
  ELSE f[CHOOSE x \in S : TRUE] + Sum(f, S \ {CHOOSE x \in S : TRUE})

RECURSIVE Sqrt(_, _, _)
\* the largest r in lo..hi with r * r <= n
Sqrt(n, lo, hi) ==
  IF lo = hi THEN lo
  ELSE IF ((lo + hi + 1) \div 2) * ((lo + hi + 1) \div 2) <= n
    THEN Sqrt(n, (lo + hi + 1) \div 2, hi)
  ELSE Sqrt(n, lo, ((lo + hi + 1) \div 2) - 1)

\* np.linalg.norm(vector) of a vector in 1/Scale, in 1/(100 * Scale): the
\* integer part of the root and one Newton step
Norm(vector) ==
  LET step(n, r) == IF r = 0 THEN 0 ELSE 100 * r + ((n - r * r) * 50) \div r
      root(n) == step(n, Sqrt(n, 0, 46340))
  IN root(Sum([i \in DOMAIN vector |-> vector[i] * vector[i]], DOMAIN vector))

\* [a-z0-9]
Alnum ==
  {LowerChars[i] : i \in 1..Len(LowerChars)}
    \cup {DigitChars[i] : i \in 1..Len(DigitChars)}

RECURSIVE RunEnd(_, _)
\* the last position of the run of [a-z0-9] that holds position i
RunEnd(s, i) == IF i < Len(s) /\ s[i + 1] \in Alnum THEN RunEnd(s, i + 1) ELSE i

\* the elements of S in the order given by their 0-based ranks
InOrder(S, rank) == [k \in 1..Cardinality(S) |-> CHOOSE w \in S : rank[w] = k - 1]

\* re.findall(r'\b[a-z0-9]+\b', text.lower()) on a text of letters, digits,
\* blanks and punctuation: a match is a whole run of [a-z0-9] with \b on both
\* sides, that is with no "_" next to it (no later start inside a run has \b)
_tokenize(text) ==
  LET matches(s, order) ==
        [k \in 1..Len(order) |-> SubSeq(s, order[k], RunEnd(s, order[k]))]
      sorted(s, starts) ==
        matches(s, InOrder(starts,
                           Table([i \in starts |->
                                    Cardinality({j \in starts : j < i})])))
      findall(s) ==
        sorted(s, {i \in 1..Len(s) :
                     /\ s[i] \in Alnum
                     /\ i = 1 \/ (s[i - 1] \notin Alnum /\ s[i - 1] # "_")
                     /\ RunEnd(s, i) = Len(s) \/ s[RunEnd(s, i) + 1] # "_"})
  IN findall(Table(PyLower(text)))

\* SimpleEmbedder(dimension)
SimpleEmbedder(dimension) ==
  [dimension |-> dimension, vocabulary |-> <<>>, idf |-> <<>>, fitted |-> FALSE]

\* a comes before b in the dictionary
WordBefore(a, b) ==
  LET alphabet == DigitChars \o LowerChars
      rank(c) == CHOOSE i \in 1..Len(alphabet) : alphabet[i] = c
  IN \E i \in 1..Len(b) :
       /\ Len(a) >= i - 1
       /\ SubSeq(a, 1, i - 1) = SubSeq(b, 1, i - 1)
       /\ Len(a) = i - 1 \/ rank(a[i]) < rank(b[i])

\* for word in unique_words: the elements of the set in iteration order.
\* str hashes are salted per process, so the order in which a set of str is
\* iterated differs from one run to the next: seed 0 iterates in dictionary
\* order, seed 1 in the opposite order
SetIter(seed, S) ==
  InOrder(S, Table([w \in S |->
                      Cardinality({u \in S : IF seed = 0 THEN WordBefore(u, w)
                                              ELSE WordBefore(w, u)})]))

RECURSIVE DocFreqKeys(_, _, _)
\* the keys of doc_freq, in insertion order, after the first n texts
DocFreqKeys(seed, docs, n) ==
  LET added(keys, seen) ==
        keys \o SelectSeq(SetIter(seed, docs[n]), LAMBDA w : w \notin seen)
      after(keys) == added(keys, {keys[p] : p \in 1..Len(keys)})
  IN IF n = 0 THEN <<>> ELSE after(DocFreqKeys(seed, docs, n - 1))

\* self.fit(texts) in a process with this hash seed: the embedder afterwards.
\* docs are the unique_words of each text, dfs the counts of doc_freq, ranks
\* the 0-based positions in sorted(doc_freq.items(), key=lambda x: x[1],
\* reverse=True): the sort is stable, equal counts keep the order of doc_freq
fit(self, texts, seed) ==
  LET fitted(n_docs, keys, dfs, ranks) ==
        [self EXCEPT
           !.vocabulary =
             [w \in {keys[p] : p \in {q \in 1..Len(keys) :
                                        ranks[q] < self.dimension}} |->
                ranks[CHOOSE p \in 1..Len(keys) : keys[p] = w]],
           !.idf =
             [w \in {keys[p] : p \in 1..Len(keys)} |->
                np_log(n_docs, dfs[CHOOSE p \in 1..Len(keys) : keys[p] = w] + 1)],
           !.fitted = TRUE]
      ranked(n_docs, keys, dfs) ==
        fitted(n_docs, keys, dfs,
               Table([p \in 1..Len(keys) |->
                        Cardinality({j \in 1..Len(keys) :
                                       \/ dfs[j] > dfs[p]
                                       \/ dfs[j] = dfs[p] /\ j < p})]))
      counted(docs, keys) ==
        ranked(Len(docs), keys,
               Table([p \in 1..Len(keys) |->
                        Cardinality({d \in 1..Len(docs) : keys[p] \in docs[d]})]))
      keyed(docs) == counted(docs, DocFreqKeys(seed, docs, Len(docs)))
      unique(words) == {words[i] : i \in 1..Len(words)}
  IN keyed(Table([d \in 1..Len(texts) |-> unique(_tokenize(texts[d]))]))

Raised(error) == [raised |-> error]

DidRaise(r) == "raised" \in DOMAIN r

\* self.embed(text): the vector, or the error raised.  tf holds the counts,
\* weight is word_tf * word_idf for the words of the vocabulary
embed(self, text) ==
  LET normalized(vector, norm) ==
        IF norm > 0
        THEN [i \in DOMAIN vector |-> Div(vector[i] * (VecOne * 100), norm)]
        ELSE vector
      of_vector(vector) == normalized(vector, Norm(vector))
      of_weight(weight) ==
        of_vector(Table([i \in {self.vocabulary[w] :
                                   w \in {u \in DOMAIN weight : weight[u] # 0}} |->
                           weight[CHOOSE w \in DOMAIN weight :
                                    self.vocabulary[w] = i]]))
      of_tf(tf, max_tf) ==
        of_weight(Table([w \in DOMAIN tf \cap DOMAIN self.vocabulary |->
                           Div(((tf[w] * Scale) \div max_tf)
                                 * (IF w \in DOMAIN self.idf THEN self.idf[w] ELSE 0),
                               Scale)]))
      of_counts(tf) ==
        of_tf(tf, IF DOMAIN tf = {} THEN 1
                  ELSE CHOOSE m \in {tf[w] : w \in DOMAIN tf} :
                         \A w \in DOMAIN tf : tf[w] <= m)
      of_words(words) ==
        of_counts(Table([w \in {words[i] : i \in 1..Len(words)} |->
                           Cardinality({i \in 1..Len(words) : words[i] = w})]))
  IN IF ~self.fitted
     THEN Raised("ValueError: Embedder must be fitted before embedding")
     ELSE [value |-> of_words(_tokenize(text))]

\* self.embed_batch(texts) on a fitted embedder
embed_batch(self, texts) == [i \in 1..Len(texts) |-> embed(self, texts[i]).value]

---------------------------------------------------------------------------
(* src/utils/vector_db.py: VectorDatabase *)

\* VectorDatabase(): no attribute `embeddings` is modelled as embeddings None
VectorDatabase ==
  [embedder       |-> SimpleEmbedder(EMBEDDING_DIMENSION),
   index          |-> None,
   embeddings     |-> None,
   products       |-> <<>>,
   is_initialized |-> FALSE]

\* a product of two components has VecOne * VecOne for 1.0; this is it to
\* three decimals
Rounded(x) == (x + (VecOne * VecOne) \div 2000) \div ((VecOne * VecOne) \div 1000)

\* the squared Euclidean distance of two vectors
L2sqr(x, y) ==
  LET square(d) == d * d
      at(v, i) == IF i \in DOMAIN v THEN v[i] ELSE 0
  IN Rounded(Sum([i \in DOMAIN x \cup DOMAIN y |-> square(at(x, i) - at(y, i))],
                 DOMAIN x \cup DOMAIN y))

\* np.dot of two vectors
Dot(x, y) ==
  Rounded(Sum([i \in DOMAIN x \cap DOMAIN y |-> x[i] * y[i]],
              DOMAIN x \cap DOMAIN y))

\* the positions 1..Len(keys) in ascending order of key, equal keys in
\* ascending order of position
Ascending(keys) ==
  [p \in 1..Len(keys) |->
     CHOOSE j \in 1..Len(keys) :
       Cardinality({i \in 1..Len(keys) :
                      keys[i] < keys[j] \/ (keys[i] = keys[j] /\ i < j)}) = p - 1]

\* np.argsort(keys): positions in ascending order of key.  Its default sort
\* is not a stable one, so the order of equal keys is the build's: "stable"
\* is ascending position (the insertion sort of short arrays), "unstable"
\* stands for the other orders by the opposite one
ArgSort(keys, kind) ==
  IF kind = "stable" THEN Ascending(keys)
  ELSE [p \in 1..Len(keys) |->
          Ascending([i \in 1..Len(keys) |-> -keys[i]])[Len(keys) + 1 - p]]

\* the search with faiss.  index.search asserts k > 0; its labels are the k
\* nearest rows, nearest first, rows at the same distance by ascending id,
\* and -1 where the index has fewer than k rows; the products kept are
\* [self.products[idx] for idx in indices[0] if idx < len(self.products)],
\* where a negative idx counts from the end
FaissSearch(self, query, k) ==
  LET results(kept) ==
        IF \E p \in 1..Len(kept) : kept[p] < -Len(self.products)
        THEN Raised("IndexError")
        ELSE [value |->
                [p \in 1..Len(kept) |->
                   IF kept[p] < 0 THEN self.products[Len(self.products) + kept[p] + 1]
                   ELSE self.products[kept[p] + 1]]]
      labelled(order) ==
        results(SelectSeq([p \in 1..k |-> IF p <= Len(order) THEN order[p] - 1 ELSE -1],
                          LAMBDA l : l < Len(self.products)))
  IN IF k <= 0 THEN Raised("AssertionError")
     ELSE labelled(Ascending(Table([j \in 1..Len(self.index.rows) |->
                                      L2sqr(query, self.index.rows[j])])))

\* the search without faiss, k >= 0: top_indices =
\* np.argsort(similarities)[::-1][:k], then
\* [self.products[idx] for idx in top_indices]
FallbackSearch(self, kind, query, k) ==
  LET results(top_indices) ==
        IF \E p \in 1..Len(top_indices) : top_indices[p] >= Len(self.products)
        THEN Raised("IndexError")
        ELSE [value |->
                [p \in 1..Len(top_indices) |-> self.products[top_indices[p] + 1]]]
      top(order) ==
        results([p \in 1..(IF k < Len(order) THEN k ELSE Len(order)) |->
                   order[Len(order) + 1 - p] - 1])
  IN IF IsNone(self.embeddings) THEN Raised("AttributeError")
     ELSE top(ArgSort(Table([j \in 1..Len(self.embeddings.rows) |->
                               Dot(self.embeddings.rows[j], query)]), kind))

\* self.similarity_search(query_text, k): the products returned, or the error
similarity_search(self, with_faiss, kind, query_text, k) ==
  LET search(query_embedding) ==
        IF DidRaise(query_embedding) THEN query_embedding
        ELSE IF with_faiss /\ ~IsNone(self.index)
          THEN FaissSearch(self, query_embedding.value, Min(k, Len(self.products)))
        ELSE FallbackSearch(self, kind, query_embedding.value, k)
  IN IF ~self.is_initialized
     THEN Raised("ValueError: Vector database not initialized. Call initialize_from_products first.")
     ELSE search(embed(self.embedder, query_text))

\* the index built from the embeddings, or the embeddings kept without faiss
StoreEmbeddings(self, with_faiss, embeddings) ==
  IF with_faiss
  THEN [self EXCEPT !.index = [kind |-> "IndexFlatL2", d |-> EMBEDDING_DIMENSION,
                               rows |-> embeddings]]
  ELSE [self EXCEPT !.embeddings = [kind |-> "ndarray", rows |-> embeddings]]

\* a build that assigns self.products and then raises
initialize_from_products_assigns(self, with_faiss, products, texts, seed) ==
  [self |-> [self EXCEPT !.products = products],
   out  |-> Raised("ValueError: No products provided to initialize database")]

\* self.initialize_from_products(products): the instance afterwards and what
\* the call returns or raises; the statements of the method one after the
\* other
initialize_from_products(self, with_faiss, products, texts, seed) ==
  LET built(fitted) ==
        [StoreEmbeddings([self EXCEPT !.products = products, !.embedder = fitted],
                         with_faiss, embed_batch(fitted, texts))
           EXCEPT !.is_initialized = TRUE]
  IN IF products = <<>>
     THEN [self |-> self,
           out  |-> Raised("ValueError: No products provided to initialize database")]
     ELSE [self |-> built(fit(self.embedder, texts, seed)), out |-> [value |-> None]]

\* no file at the snapshot path
NoFiles == [products |-> None, embedder |-> None, faiss_index |-> None,
            embeddings |-> None]

\* self.save(): the files afterwards.  The products and the embedder are
\* written, then the index if faiss is there and the index is not None, else
\* the embeddings if the instance has them
save(self, with_faiss, disk) ==
  [disk EXCEPT
     !.products = [kind |-> "json", val |-> self.products],
     !.embedder = [kind |-> "pkl", val |-> self.embedder],
     !.faiss_index = IF with_faiss /\ ~IsNone(self.index) THEN self.index ELSE @,
     !.embeddings = IF ~(with_faiss /\ ~IsNone(self.index)) /\ ~IsNone(self.embeddings)
                    THEN self.embeddings ELSE @]

\* a load that reads no vectors
LoadVectors_none(self, with_faiss, disk) == self

\* the index read if faiss is there and the file exists, else the
\* embeddings read if their file exists
LoadVectors(self, with_faiss, disk) ==
  IF with_faiss /\ ~IsNone(disk.faiss_index)
    THEN [self EXCEPT !.index = disk.faiss_index]
  ELSE IF ~IsNone(disk.embeddings)
    THEN [self EXCEPT !.embeddings = disk.embeddings]
  ELSE self

\* a load that sets is_initialized before it reads a file, and finds none
load_flag_first(self, with_faiss, disk) ==
  [self |-> [self EXCEPT !.is_initialized = TRUE], value |-> FALSE]

\* a load that empties self.products before it reads a file, and finds none
load_clears(self, with_faiss, disk) ==
  [self |-> [self EXCEPT !.products = <<>>], value |-> FALSE]

\* self.load(): the instance afterwards and the value returned.  The products
\* file is read into self.products, then the four fields of the embedder are
\* taken from the pickled state, then the vectors are read; a missing file
\* ends the method with False, whatever was assigned before it
load(self, with_faiss, disk) ==
  IF IsNone(disk.products) THEN [self |-> self, value |-> FALSE]
  ELSE IF IsNone(disk.embedder)
    THEN [self |-> [self EXCEPT !.products = disk.products.val], value |-> FALSE]
  ELSE [self  |-> [LoadVectors([self EXCEPT !.products = disk.products.val,
                                            !.embedder = disk.embedder.val],
                               with_faiss, disk)
                     EXCEPT !.is_initialized = TRUE],
        value |-> TRUE]

---------------------------------------------------------------------------
(* src/data/sample_products.py *)

\* the catalog of get_sample_oem_products(): sku_id, datasheet_text and specs
\* of each product (product_name and category play no part in a search or a
\* score)
SampleProducts ==
  {
    [sku_id |-> "HV-AL-XLPE-001",
     datasheet_text |->
       <<"\n"," "," "," "," "," "," "," "," "," "," "," "," ","P","r","o",
         "d","u","c","t",":"," ","1","1","k","V"," ","3"," ","C","o","r",
         "e"," ","3","0","0"," ","s","q"," ","m","m"," ","A","l","u","m",
         "i","n","u","m"," ","X","L","P","E"," ","I","n","s","u","l","a",
         "t","e","d"," ","G","I"," ","S","t","r","i","p"," ","A","r","m",
         "o","u","r","e","d"," ","C","a","b","l","e","\n"," "," "," "," ",
         " "," "," "," "," "," "," "," ","V","o","l","t","a","g","e"," ",
         "R","a","t","i","n","g",":"," ","1","1","k","V"," ","(","1","1",
         "0","0","0","V",")","\n"," "," "," "," "," "," "," "," "," "," ",
         " "," ","C","o","n","d","u","c","t","o","r",":"," ","A","l","u",
         "m","i","n","u","m"," ","(","A","l",")",","," ","S","t","r","a",
         "n","d","e","d","\n"," "," "," "," "," "," "," "," "," "," "," ",
         " ","C","r","o","s","s"," ","S","e","c","t","i","o","n",":"," ",
         "3","0","0"," ","s","q"," ","m","m"," ","p","e","r"," ","c","o",
         "r","e","\n"," "," "," "," "," "," "," "," "," "," "," "," ","N",
         "u","m","b","e","r"," ","o","f"," ","C","o","r","e","s",":"," ",
         "3","\n"," "," "," "," "," "," "," "," "," "," "," "," ","I","n",
         "s","u","l","a","t","i","o","n",":"," ","C","r","o","s","s","-",
         "l","i","n","k","e","d"," ","P","o","l","y","e","t","h","y","l",
         "e","n","e"," ","(","X","L","P","E",")","\n"," "," "," "," "," ",
         " "," "," "," "," "," "," ","A","r","m","o","u","r",":"," ","G",
         "a","l","v","a","n","i","z","e","d"," ","I","r","o","n"," ","(",
         "G","I",")"," ","S","t","r","i","p","\n"," "," "," "," "," "," ",
         " "," "," "," "," "," ","O","u","t","e","r"," ","S","h","e","a",
         "t","h",":"," ","P","V","C"," ","(","P","o","l","y","v","i","n",
         "y","l"," ","C","h","l","o","r","i","d","e",")","\n"," "," "," ",
         " "," "," "," "," "," "," "," "," ","S","t","a","n","d","a","r",
         "d","s",":"," ","I","S"," ","7","0","9","8"," ","P","a","r","t",
         " ","2",","," ","I","E","C"," ","6","0","5","0","2","-","2","\n",
         " "," "," "," "," "," "," "," "," "," "," "," ","A","p","p","l",
         "i","c","a","t","i","o","n","s",":"," ","U","n","d","e","r","g",
         "r","o","u","n","d"," ","p","o","w","e","r"," ","d","i","s","t",
         "r","i","b","u","t","i","o","n",","," ","I","n","d","u","s","t",
         "r","i","a","l"," ","i","n","s","t","a","l","l","a","t","i","o",
         "n","s","\n"," "," "," "," "," "," "," "," "," "," "," "," ","C",
         "u","r","r","e","n","t"," ","R","a","t","i","n","g",":"," ","4",
         "3","5","A"," ","a","t"," ","2","5","C"," ","g","r","o","u","n",
         "d"," ","t","e","m","p","e","r","a","t","u","r","e","\n"," "," ",
         " "," "," "," "," "," "," "," "," "," ">>,
     specs |->
       [
        voltage |-> PyStr(<<"1","1","k","v">>),
        conductor_material |-> PyStr(<<"a","l">>),
        cross_section |-> PyStr(<<"3","0","0","s","q","m","m">>),
        core_count |-> PyInt(3),
        insulation |-> PyStr(<<"x","l","p","e">>),
        armouring |-> PyStr(<<"g","i","_","s","t","r","i","p">>),
        sheathing |-> PyStr(<<"p","v","c">>)]],
    [sku_id |-> "HV-AL-XLPE-002",
     datasheet_text |->
       <<"\n"," "," "," "," "," "," "," "," "," "," "," "," ","P","r","o",
         "d","u","c","t",":"," ","1","1","k","V"," ","3"," ","C","o","r",
         "e"," ","2","4","0"," ","s","q"," ","m","m"," ","A","l","u","m",
         "i","n","u","m"," ","X","L","P","E"," ","I","n","s","u","l","a",
         "t","e","d"," ","G","I"," ","S","t","r","i","p"," ","A","r","m",
         "o","u","r","e","d"," ","C","a","b","l","e","\n"," "," "," "," ",
         " "," "," "," "," "," "," "," ","V","o","l","t","a","g","e"," ",
         "R","a","t","i","n","g",":"," ","1","1","k","V","\n"," "," "," ",
         " "," "," "," "," "," "," "," "," ","C","o","n","d","u","c","t",
         "o","r",":"," ","A","l","u","m","i","n","u","m",","," ","S","t",
         "r","a","n","d","e","d"," ","c","o","m","p","a","c","t","e","d",
         "\n"," "," "," "," "," "," "," "," "," "," "," "," ","C","r","o",
         "s","s"," ","S","e","c","t","i","o","n",":"," ","2","4","0"," ",
         "s","q"," ","m","m","\n"," "," "," "," "," "," "," "," "," "," ",
         " "," ","N","u","m","b","e","r"," ","o","f"," ","C","o","r","e",
         "s",":"," ","3","\n"," "," "," "," "," "," "," "," "," "," "," ",
         " ","I","n","s","u","l","a","t","i","o","n",":"," ","X","L","P",
         "E"," ","(","C","r","o","s","s","-","l","i","n","k","e","d"," ",
         "P","o","l","y","e","t","h","y","l","e","n","e",")","\n"," "," ",
         " "," "," "," "," "," "," "," "," "," ","A","r","m","o","u","r",
         ":"," ","G","I"," ","S","t","r","i","p"," ","A","r","m","o","u",
         "r","e","d","\n"," "," "," "," "," "," "," "," "," "," "," "," ",
         "O","u","t","e","r"," ","S","h","e","a","t","h",":"," ","P","V",
         "C"," ","B","l","a","c","k","\n"," "," "," "," "," "," "," "," ",
         " "," "," "," ","S","t","a","n","d","a","r","d","s",":"," ","I",
         "S"," ","7","0","9","8",","," ","I","E","C"," ","6","0","5","0",
         "2","\n"," "," "," "," "," "," "," "," "," "," "," "," ">>,
     specs |->
       [
        voltage |-> PyStr(<<"1","1","k","v">>),
        conductor_material |-> PyStr(<<"a","l">>),
        cross_section |-> PyStr(<<"2","4","0","s","q","m","m">>),
        core_count |-> PyInt(3),
        insulation |-> PyStr(<<"x","l","p","e">>),
        armouring |-> PyStr(<<"g","i","_","s","t","r","i","p">>),
        sheathing |-> PyStr(<<"p","v","c">>)]],
    [sku_id |-> "HV-CU-XLPE-001",
     datasheet_text |->
       <<"\n"," "," "," "," "," "," "," "," "," "," "," "," ","P","r","o",
         "d","u","c","t",":"," ","1","1","k","V"," ","3"," ","C","o","r",
         "e"," ","3","0","0"," ","s","q"," ","m","m"," ","C","o","p","p",
         "e","r"," ","X","L","P","E"," ","I","n","s","u","l","a","t","e",
         "d"," ","S","t","e","e","l"," ","W","i","r","e"," ","A","r","m",
         "o","u","r","e","d"," ","C","a","b","l","e","\n"," "," "," "," ",
         " "," "," "," "," "," "," "," ","V","o","l","t","a","g","e"," ",
         "R","a","t","i","n","g",":"," ","1","1","k","V","\n"," "," "," ",
         " "," "," "," "," "," "," "," "," ","C","o","n","d","u","c","t",
         "o","r",":"," ","C","o","p","p","e","r"," ","(","C","u",")",",",
         " ","S","t","r","a","n","d","e","d","\n"," "," "," "," "," "," ",
         " "," "," "," "," "," ","C","r","o","s","s"," ","S","e","c","t",
         "i","o","n",":"," ","3","0","0"," ","s","q"," ","m","m"," ","p",
         "e","r"," ","c","o","r","e","\n"," "," "," "," "," "," "," "," ",
         " "," "," "," ","N","u","m","b","e","r"," ","o","f"," ","C","o",
         "r","e","s",":"," ","3","\n"," "," "," "," "," "," "," "," "," ",
         " "," "," ","I","n","s","u","l","a","t","i","o","n",":"," ","X",
         "L","P","E","\n"," "," "," "," "," "," "," "," "," "," "," "," ",
         "A","r","m","o","u","r",":"," ","S","t","e","e","l"," ","W","i",
         "r","e"," ","A","r","m","o","u","r"," ","(","S","W","A",")","\n",
         " "," "," "," "," "," "," "," "," "," "," "," ","O","u","t","e",
         "r"," ","S","h","e","a","t","h",":"," ","P","V","C","\n"," "," ",
         " "," "," "," "," "," "," "," "," "," ","S","t","a","n","d","a",
         "r","d","s",":"," ","I","E","C"," ","6","0","5","0","2","-","2",
         ","," ","B","S"," ","6","6","2","2","\n"," "," "," "," "," "," ",
         " "," "," "," "," "," ","C","u","r","r","e","n","t"," ","R","a",
         "t","i","n","g",":"," ","5","8","0","A","\n"," "," "," "," "," ",
         " "," "," "," "," "," "," ">>,
     specs |->
       [
        voltage |-> PyStr(<<"1","1","k","v">>),
        conductor_material |-> PyStr(<<"c","u">>),
        cross_section |-> PyStr(<<"3","0","0","s","q","m","m">>),
        core_count |-> PyInt(3),
        insulation |-> PyStr(<<"x","l","p","e">>),
        armouring |-> PyStr(<<"s","w","a">>),
        sheathing |-> PyStr(<<"p","v","c">>)]],
    [sku_id |-> "HV-AL-XLPE-003",
     datasheet_text |->
       <<"\n"," "," "," "," "," "," "," "," "," "," "," "," ","P","r","o",
         "d","u","c","t",":"," ","3","3","k","V"," ","3"," ","C","o","r",
         "e"," ","4","0","0"," ","s","q"," ","m","m"," ","A","l","u","m",
         "i","n","u","m"," ","X","L","P","E"," ","G","I"," ","S","t","r",
         "i","p"," ","A","r","m","o","u","r","e","d"," ","C","a","b","l",
         "e","\n"," "," "," "," "," "," "," "," "," "," "," "," ","V","o",
         "l","t","a","g","e"," ","R","a","t","i","n","g",":"," ","3","3",
         "k","V"," ","(","3","3","0","0","0","V",")","\n"," "," "," "," ",
         " "," "," "," "," "," "," "," ","C","o","n","d","u","c","t","o",
         "r",":"," ","A","l","u","m","i","n","u","m","\n"," "," "," "," ",
         " "," "," "," "," "," "," "," ","C","r","o","s","s"," ","S","e",
         "c","t","i","o","n",":"," ","4","0","0"," ","s","q"," ","m","m",
         "\n"," "," "," "," "," "," "," "," "," "," "," "," ","N","u","m",
         "b","e","r"," ","o","f"," ","C","o","r","e","s",":"," ","3","\n",
         " "," "," "," "," "," "," "," "," "," "," "," ","I","n","s","u",
         "l","a","t","i","o","n",":"," ","X","L","P","E","\n"," "," "," ",
         " "," "," "," "," "," "," "," "," ","A","r","m","o","u","r",":",
         " ","G","I"," ","S","t","r","i","p","\n"," "," "," "," "," "," ",
         " "," "," "," "," "," ","S","h","e","a","t","h",":"," ","P","V",
         "C","\n"," "," "," "," "," "," "," "," "," "," "," "," ","S","t",
         "a","n","d","a","r","d","s",":"," ","I","S"," ","7","0","9","8",
         " ","P","a","r","t"," ","2","\n"," "," "," "," "," "," "," "," ",
         " "," "," "," ">>,
     specs |->
       [
        voltage |-> PyStr(<<"3","3","k","v">>),
        conductor_material |-> PyStr(<<"a","l">>),
        cross_section |-> PyStr(<<"4","0","0","s","q","m","m">>),
        core_count |-> PyInt(3),
        insulation |-> PyStr(<<"x","l","p","e">>),
        armouring |-> PyStr(<<"g","i","_","s","t","r","i","p">>),
        sheathing |-> PyStr(<<"p","v","c">>)]],
    [sku_id |-> "MV-AL-XLPE-001",
     datasheet_text |->
       <<"\n"," "," "," "," "," "," "," "," "," "," "," "," ","P","r","o",
         "d","u","c","t",":"," ","6",".","6","k","V"," ","3"," ","C","o",
         "r","e"," ","1","8","5"," ","s","q"," ","m","m"," ","A","l","u",
         "m","i","n","u","m"," ","X","L","P","E"," ","G","I"," ","S","t",
         "r","i","p"," ","A","r","m","o","u","r","e","d"," ","C","a","b",
         "l","e","\n"," "," "," "," "," "," "," "," "," "," "," "," ","V",
         "o","l","t","a","g","e"," ","R","a","t","i","n","g",":"," ","6",
         ".","6","k","V","\n"," "," "," "," "," "," "," "," "," "," "," ",
         " ","C","o","n","d","u","c","t","o","r",":"," ","A","l","u","m",
         "i","n","u","m"," ","s","t","r","a","n","d","e","d","\n"," "," ",
         " "," "," "," "," "," "," "," "," "," ","C","r","o","s","s"," ",
         "S","e","c","t","i","o","n",":"," ","1","8","5"," ","s","q"," ",
         "m","m","\n"," "," "," "," "," "," "," "," "," "," "," "," ","C",
         "o","r","e","s",":"," ","3","\n"," "," "," "," "," "," "," "," ",
         " "," "," "," ","I","n","s","u","l","a","t","i","o","n",":"," ",
         "X","L","P","E","\n"," "," "," "," "," "," "," "," "," "," "," ",
         " ","A","r","m","o","u","r",":"," ","G","a","l","v","a","n","i",
         "z","e","d"," ","I","r","o","n"," ","S","t","r","i","p","\n"," ",
         " "," "," "," "," "," "," "," "," "," "," ","S","h","e","a","t",
         "h",":"," ","P","V","C","\n"," "," "," "," "," "," "," "," "," ",
         " "," "," ">>,
     specs |->
       [
        voltage |-> PyStr(<<"6",".","6","k","v">>),
        conductor_material |-> PyStr(<<"a","l">>),
        cross_section |-> PyStr(<<"1","8","5","s","q","m","m">>),
        core_count |-> PyInt(3),
        insulation |-> PyStr(<<"x","l","p","e">>),
        armouring |-> PyStr(<<"g","i","_","s","t","r","i","p">>),
        sheathing |-> PyStr(<<"p","v","c">>)]],
    [sku_id |-> "MV-CU-XLPE-001",
     datasheet_text |->
       <<"\n"," "," "," "," "," "," "," "," "," "," "," "," ","P","r","o",
         "d","u","c","t",":"," ","6",".","6","k","V"," ","3"," ","C","o",
         "r","e"," ","1","2","0"," ","s","q"," ","m","m"," ","C","o","p",
         "p","e","r"," ","X","L","P","E"," ","S","t","e","e","l"," ","W",
         "i","r","e"," ","A","r","m","o","u","r","e","d"," ","C","a","b",
         "l","e","\n"," "," "," "," "," "," "," "," "," "," "," "," ","V",
         "o","l","t","a","g","e",":"," ","6",".","6","k","V","\n"," "," ",
         " "," "," "," "," "," "," "," "," "," ","C","o","n","d","u","c",
         "t","o","r",":"," ","C","o","p","p","e","r","\n"," "," "," "," ",
         " "," "," "," "," "," "," "," ","S","i","z","e",":"," ","1","2",
         "0"," ","s","q"," ","m","m","\n"," "," "," "," "," "," "," "," ",
         " "," "," "," ","C","o","r","e","s",":"," ","3","\n"," "," "," ",
         " "," "," "," "," "," "," "," "," ","I","n","s","u","l","a","t",
         "i","o","n",":"," ","C","r","o","s","s","-","l","i","n","k","e",
         "d"," ","P","o","l","y","e","t","h","y","l","e","n","e","\n"," ",
         " "," "," "," "," "," "," "," "," "," "," ","A","r","m","o","u",
         "r",":"," ","S","W","A"," ","S","t","e","e","l"," ","W","i","r",
         "e","\n"," "," "," "," "," "," "," "," "," "," "," "," ","O","u",
         "t","e","r",":"," ","P","V","C"," ","s","h","e","a","t","h","\n",
         " "," "," "," "," "," "," "," "," "," "," "," ">>,
     specs |->
       [
        voltage |-> PyStr(<<"6",".","6","k","v">>),
        conductor_material |-> PyStr(<<"c","u">>),
        cross_section |-> PyStr(<<"1","2","0","s","q","m","m">>),
        core_count |-> PyInt(3),
        insulation |-> PyStr(<<"x","l","p","e">>),
        armouring |-> PyStr(<<"s","w","a">>),
        sheathing |-> PyStr(<<"p","v","c">>)]],
    [sku_id |-> "LV-AL-PVC-001",
     datasheet_text |->
       <<"\n"," "," "," "," "," "," "," "," "," "," "," "," ","P","r","o",
         "d","u","c","t",":"," ","1",".","1","k","V"," ","4"," ","C","o",
         "r","e"," ","9","5"," ","s","q"," ","m","m"," ","A","l","u","m",
         "i","n","u","m"," ","P","V","C"," ","I","n","s","u","l","a","t",
         "e","d"," ","A","r","m","o","u","r","e","d"," ","C","a","b","l",
         "e","\n"," "," "," "," "," "," "," "," "," "," "," "," ","V","o",
         "l","t","a","g","e",":"," ","1",".","1","k","V"," ","(","1","1",
         "0","0","V",")","\n"," "," "," "," "," "," "," "," "," "," "," ",
         " ","C","o","n","d","u","c","t","o","r",":"," ","A","l","u","m",
         "i","n","u","m","\n"," "," "," "," "," "," "," "," "," "," "," ",
         " ","C","r","o","s","s"," ","S","e","c","t","i","o","n",":"," ",
         "9","5"," ","s","q"," ","m","m","\n"," "," "," "," "," "," "," ",
         " "," "," "," "," ","C","o","r","e","s",":"," ","4","\n"," "," ",
         " "," "," "," "," "," "," "," "," "," ","I","n","s","u","l","a",
         "t","i","o","n",":"," ","P","V","C","\n"," "," "," "," "," "," ",
         " "," "," "," "," "," ","A","r","m","o","u","r",":"," ","G","I",
         " ","S","t","r","i","p","\n"," "," "," "," "," "," "," "," "," ",
         " "," "," ","S","h","e","a","t","h",":"," ","P","V","C","\n"," ",
         " "," "," "," "," "," "," "," "," "," "," ","S","t","a","n","d",
         "a","r","d","s",":"," ","I","S"," ","1","5","5","4"," ","P","a",
         "r","t"," ","1","\n"," "," "," "," "," "," "," "," "," "," "," ",
         " ">>,
     specs |->
       [
        voltage |-> PyStr(<<"1",".","1","k","v">>),
        conductor_material |-> PyStr(<<"a","l">>),
        cross_section |-> PyStr(<<"9","5","s","q","m","m">>),
        core_count |-> PyInt(4),
        insulation |-> PyStr(<<"p","v","c">>),
        armouring |-> PyStr(<<"g","i","_","s","t","r","i","p">>),
        sheathing |-> PyStr(<<"p","v","c">>)]],
    [sku_id |-> "LV-CU-PVC-001",
     datasheet_text |->
       <<"\n"," "," "," "," "," "," "," "," "," "," "," "," ","P","r","o",
         "d","u","c","t",":"," ","1",".","1","k","V"," ","4"," ","C","o",
         "r","e"," ","7","0"," ","s","q"," ","m","m"," ","C","o","p","p",
         "e","r"," ","P","V","C"," ","A","r","m","o","u","r","e","d"," ",
         "P","o","w","e","r"," ","C","a","b","l","e","\n"," "," "," "," ",
         " "," "," "," "," "," "," "," ","V","o","l","t","a","g","e"," ",
         "R","a","t","i","n","g",":"," ","1",".","1","k","V","\n"," "," ",
         " "," "," "," "," "," "," "," "," "," ","C","o","n","d","u","c",
         "t","o","r"," ","M","a","t","e","r","i","a","l",":"," ","C","o",
         "p","p","e","r"," ","(","C","u",")","\n"," "," "," "," "," "," ",
         " "," "," "," "," "," ","C","r","o","s","s"," ","S","e","c","t",
         "i","o","n"," ","A","r","e","a",":"," ","7","0"," ","s","q"," ",
         "m","m","\n"," "," "," "," "," "," "," "," "," "," "," "," ","N",
         "u","m","b","e","r"," ","o","f"," ","C","o","r","e","s",":"," ",
         "4","\n"," "," "," "," "," "," "," "," "," "," "," "," ","I","n",
         "s","u","l","a","t","i","o","n"," ","T","y","p","e",":"," ","P",
         "V","C"," ","(","P","o","l","y","v","i","n","y","l"," ","C","h",
         "l","o","r","i","d","e",")","\n"," "," "," "," "," "," "," "," ",
         " "," "," "," ","A","r","m","o","u","r"," ","T","y","p","e",":",
         " ","G","I"," ","S","t","r","i","p"," ","A","r","m","o","u","r",
         "e","d","\n"," "," "," "," "," "," "," "," "," "," "," "," ","O",
         "u","t","e","r"," ","S","h","e","a","t","h",":"," ","P","V","C",
         " ","B","l","a","c","k","\n"," "," "," "," "," "," "," "," "," ",
         " "," "," ">>,
     specs |->
       [
        voltage |-> PyStr(<<"1",".","1","k","v">>),
        conductor_material |-> PyStr(<<"c","u">>),
        cross_section |-> PyStr(<<"7","0","s","q","m","m">>),
        core_count |-> PyInt(4),
        insulation |-> PyStr(<<"p","v","c">>),
        armouring |-> PyStr(<<"g","i","_","s","t","r","i","p">>),
        sheathing |-> PyStr(<<"p","v","c">>)]],
    [sku_id |-> "SC-AL-XLPE-001",
     datasheet_text |->
       <<"\n"," "," "," "," "," "," "," "," "," "," "," "," ","P","r","o",
         "d","u","c","t",":"," ","1","1","k","V"," ","S","i","n","g","l",
         "e"," ","C","o","r","e"," ","6","3","0"," ","s","q"," ","m","m",
         " ","A","l","u","m","i","n","u","m"," ","X","L","P","E"," ","I",
         "n","s","u","l","a","t","e","d"," ","U","n","a","r","m","o","u",
         "r","e","d"," ","C","a","b","l","e","\n"," "," "," "," "," "," ",
         " "," "," "," "," "," ","V","o","l","t","a","g","e",":"," ","1",
         "1","k","V","\n"," "," "," "," "," "," "," "," "," "," "," "," ",
         "C","o","n","d","u","c","t","o","r",":"," ","A","l","u","m","i",
         "n","u","m","\n"," "," "," "," "," "," "," "," "," "," "," "," ",
         "C","r","o","s","s"," ","S","e","c","t","i","o","n",":"," ","6",
         "3","0"," ","s","q"," ","m","m","\n"," "," "," "," "," "," "," ",
         " "," "," "," "," ","C","o","r","e","s",":"," ","1"," ","(","S",
         "i","n","g","l","e"," ","C","o","r","e",")","\n"," "," "," "," ",
         " "," "," "," "," "," "," "," ","I","n","s","u","l","a","t","i",
         "o","n",":"," ","X","L","P","E","\n"," "," "," "," "," "," "," ",
         " "," "," "," "," ","A","r","m","o","u","r",":"," ","U","n","a",
         "r","m","o","u","r","e","d","\n"," "," "," "," "," "," "," "," ",
         " "," "," "," ","S","h","e","a","t","h",":"," ","H","D","P","E",
         "\n"," "," "," "," "," "," "," "," "," "," "," "," ">>,
     specs |->
       [
        voltage |-> PyStr(<<"1","1","k","v">>),
        conductor_material |-> PyStr(<<"a","l">>),
        cross_section |-> PyStr(<<"6","3","0","s","q","m","m">>),
        core_count |-> PyInt(1),
        insulation |-> PyStr(<<"x","l","p","e">>),
        armouring |-> PyStr(<<"u","n","a","r","m","o","u","r","e","d">>),
        sheathing |-> PyStr(<<"p","e">>)]],
    [sku_id |-> "SC-CU-XLPE-001",
     datasheet_text |->
       <<"\n"," "," "," "," "," "," "," "," "," "," "," "," ","P","r","o",
         "d","u","c","t",":"," ","3","3","k","V"," ","S","i","n","g","l",
         "e"," ","C","o","r","e"," ","5","0","0"," ","s","q"," ","m","m",
         " ","C","o","p","p","e","r"," ","X","L","P","E"," ","U","n","a",
         "r","m","o","u","r","e","d"," ","C","a","b","l","e","\n"," "," ",
         " "," "," "," "," "," "," "," "," "," ","V","o","l","t","a","g",
         "e"," ","R","a","t","i","n","g",":"," ","3","3","k","V","\n"," ",
         " "," "," "," "," "," "," "," "," "," "," ","C","o","n","d","u",
         "c","t","o","r",":"," ","C","o","p","p","e","r"," ","s","t","r",
         "a","n","d","e","d"," ","c","o","m","p","a","c","t","e","d","\n",
         " "," "," "," "," "," "," "," "," "," "," "," ","C","r","o","s",
         "s"," ","S","e","c","t","i","o","n",":"," ","5","0","0"," ","s",
         "q"," ","m","m","\n"," "," "," "," "," "," "," "," "," "," "," ",
         " ","C","o","r","e","s",":"," ","1","\n"," "," "," "," "," "," ",
         " "," "," "," "," "," ","I","n","s","u","l","a","t","i","o","n",
         ":"," ","X","L","P","E"," ","C","r","o","s","s","-","l","i","n",
         "k","e","d"," ","P","o","l","y","e","t","h","y","l","e","n","e",
         "\n"," "," "," "," "," "," "," "," "," "," "," "," ","S","c","r",
         "e","e","n",":"," ","C","o","p","p","e","r"," ","w","i","r","e",
         " ","s","c","r","e","e","n","\n"," "," "," "," "," "," "," "," ",
         " "," "," "," ","S","h","e","a","t","h",":"," ","H","D","P","E",
         " ","H","i","g","h"," ","D","e","n","s","i","t","y"," ","P","o",
         "l","y","e","t","h","y","l","e","n","e","\n"," "," "," "," "," ",
         " "," "," "," "," "," "," ">>,
     specs |->
       [
        voltage |-> PyStr(<<"3","3","k","v">>),
        conductor_material |-> PyStr(<<"c","u">>),
        cross_section |-> PyStr(<<"5","0","0","s","q","m","m">>),
        core_count |-> PyInt(1),
        insulation |-> PyStr(<<"x","l","p","e">>),
        armouring |-> PyStr(<<"u","n","a","r","m","o","u","r","e","d">>),
        sheathing |-> PyStr(<<"p","e">>)]],
    [sku_id |-> "CC-CU-PVC-001",
     datasheet_text |->
       <<"\n"," "," "," "," "," "," "," "," "," "," "," "," ","P","r","o",
         "d","u","c","t",":"," ","1",".","1","k","V"," ","1","2"," ","C",
         "o","r","e"," ","2",".","5"," ","s","q"," ","m","m"," ","C","o",
         "p","p","e","r"," ","P","V","C"," ","C","o","n","t","r","o","l",
         " ","C","a","b","l","e"," ","A","r","m","o","u","r","e","d","\n",
         " "," "," "," "," "," "," "," "," "," "," "," ","V","o","l","t",
         "a","g","e",":"," ","1",".","1","k","V","\n"," "," "," "," "," ",
         " "," "," "," "," "," "," ","C","o","n","d","u","c","t","o","r",
         ":"," ","C","o","p","p","e","r"," ","a","n","n","e","a","l","e",
         "d","\n"," "," "," "," "," "," "," "," "," "," "," "," ","C","r",
         "o","s","s"," ","S","e","c","t","i","o","n",":"," ","2",".","5",
         " ","s","q"," ","m","m","\n"," "," "," "," "," "," "," "," "," ",
         " "," "," ","C","o","r","e","s",":"," ","1","2","\n"," "," "," ",
         " "," "," "," "," "," "," "," "," ","I","n","s","u","l","a","t",
         "i","o","n",":"," ","P","V","C","\n"," "," "," "," "," "," "," ",
         " "," "," "," "," ","A","r","m","o","u","r",":"," ","G","I"," ",
         "S","t","r","i","p","\n"," "," "," "," "," "," "," "," "," "," ",
         " "," ","S","h","e","a","t","h",":"," ","P","V","C","\n"," "," ",
         " "," "," "," "," "," "," "," "," "," ","A","p","p","l","i","c",
         "a","t","i","o","n",":"," ","C","o","n","t","r","o","l"," ","a",
         "n","d"," ","i","n","s","t","r","u","m","e","n","t","a","t","i",
         "o","n","\n"," "," "," "," "," "," "," "," "," "," "," "," ">>,
     specs |->
       [
        voltage |-> PyStr(<<"1",".","1","k","v">>),
        conductor_material |-> PyStr(<<"c","u">>),
        cross_section |-> PyStr(<<"2",".","5","s","q","m","m">>),
        core_count |-> PyInt(12),
        insulation |-> PyStr(<<"p","v","c">>),
        armouring |-> PyStr(<<"g","i","_","s","t","r","i","p">>),
        sheathing |-> PyStr(<<"p","v","c">>)]],
    [sku_id |-> "SP-AL-EPR-001",
     datasheet_text |->
       <<"\n"," "," "," "," "," "," "," "," "," "," "," "," ","P","r","o",
         "d","u","c","t",":"," ","1","1","k","V"," ","3"," ","C","o","r",
         "e"," ","1","8","5"," ","s","q"," ","m","m"," ","A","l","u","m",
         "i","n","u","m"," ","E","P","R"," ","I","n","s","u","l","a","t",
         "e","d"," ","M","i","n","i","n","g"," ","C","a","b","l","e","\n",
         " "," "," "," "," "," "," "," "," "," "," "," ","V","o","l","t",
         "a","g","e",":"," ","1","1","k","V","\n"," "," "," "," "," "," ",
         " "," "," "," "," "," ","C","o","n","d","u","c","t","o","r",":",
         " ","A","l","u","m","i","n","u","m","\n"," "," "," "," "," "," ",
         " "," "," "," "," "," ","C","r","o","s","s"," ","S","e","c","t",
         "i","o","n",":"," ","1","8","5"," ","s","q"," ","m","m","\n"," ",
         " "," "," "," "," "," "," "," "," "," "," ","C","o","r","e","s",
         ":"," ","3","\n"," "," "," "," "," "," "," "," "," "," "," "," ",
         "I","n","s","u","l","a","t","i","o","n",":"," ","E","P","R"," ",
         "(","E","t","h","y","l","e","n","e"," ","P","r","o","p","y","l",
         "e","n","e"," ","R","u","b","b","e","r",")","\n"," "," "," "," ",
         " "," "," "," "," "," "," "," ","A","r","m","o","u","r",":"," ",
         "D","o","u","b","l","e"," ","S","W","A","\n"," "," "," "," "," ",
         " "," "," "," "," "," "," ","S","h","e","a","t","h",":"," ","P",
         "C","P"," ","(","P","o","l","y","c","h","l","o","r","o","p","r",
         "e","n","e",")","\n"," "," "," "," "," "," "," "," "," "," "," ",
         " ","A","p","p","l","i","c","a","t","i","o","n",":"," ","M","i",
         "n","i","n","g"," ","a","n","d"," ","h","a","r","s","h"," ","e",
         "n","v","i","r","o","n","m","e","n","t","s","\n"," "," "," "," ",
         " "," "," "," "," "," "," "," ">>,
     specs |->
       [
        voltage |-> PyStr(<<"1","1","k","v">>),
        conductor_material |-> PyStr(<<"a","l">>),
        cross_section |-> PyStr(<<"1","8","5","s","q","m","m">>),
        core_count |-> PyInt(3),
        insulation |-> PyStr(<<"e","p","r">>),
        armouring |-> PyStr(<<"s","w","a">>),
        sheathing |-> PyStr(<<"p","v","c">>)]] }

\* the list that get_sample_oem_products() returns
get_sample_oem_products ==
  <<"HV-AL-XLPE-001",
    "HV-AL-XLPE-002",
    "HV-CU-XLPE-001",
    "HV-AL-XLPE-003",
    "MV-AL-XLPE-001",
    "MV-CU-XLPE-001",
    "LV-AL-PVC-001",
    "LV-CU-PVC-001",
    "SC-AL-XLPE-001",
    "SC-CU-XLPE-001",
    "CC-CU-PVC-001",
    "SP-AL-EPR-001">>

---------------------------------------------------------------------------
(* Inputs of the index *)

\* four datasheet texts
TestTexts ==
  [al  |-> <<"A","l"," ","X","L","P","E"," ","c","a","b","l","e">>,
   cu  |-> <<"C","u"," ","X","L","P","E"," ","c","a","b","l","e">>,
   pvc |-> <<"P","V","C"," ","s","h","e","a","t","h",","," ","g","i","_","s","t","r","i","p">>,
   xl  |-> <<"X","L","P","E"," ","c","a","b","l","e">>]

\* the reference products and five small ones: two with the same datasheet
\* text, one that shares two terms with them, one that shares none, one that
\* has only the two shared terms
OEMProducts ==
  SampleProducts \cup
  { [sku_id |-> "T-AL-1", datasheet_text |-> TestTexts.al, specs |-> FullRec],
    [sku_id |-> "T-AL-2", datasheet_text |-> TestTexts.al,
     specs |-> [FullRec EXCEPT !.cross_section = PyStr(S400sqmm)]],
    [sku_id |-> "T-CU-1", datasheet_text |-> TestTexts.cu,
     specs |-> [FullRec EXCEPT !.conductor_material = PyStr(<<"c","u">>)]],
    [sku_id |-> "T-PVC-1", datasheet_text |-> TestTexts.pvc,
     specs |-> [ExtractedAttributes EXCEPT !.sheathing = PyStr(<<"p","v","c">>)]],
    [sku_id |-> "T-XL-1", datasheet_text |-> TestTexts.xl,
     specs |-> [ExtractedAttributes EXCEPT !.insulation = PyStr(<<"x","l","p","e">>)]] }

\* the product that a sku_id in a list of products stands for
OEMProduct(sku_id) == CHOOSE p \in OEMProducts : p.sku_id = sku_id

\* texts = [p.datasheet_text for p in products]
Texts(products) == [i \in 1..Len(products) |-> OEMProduct(products[i]).datasheet_text]

\* the catalogs given to initialize_from_products
Catalogs ==
  { <<>>,
    <<"T-AL-1">>,
    <<"T-AL-1", "T-AL-2", "T-CU-1">>,
    <<"T-PVC-1", "T-CU-1", "T-AL-1", "T-XL-1", "T-AL-2">> }

\* the query texts: three that share terms with the catalogs, one that shares
\* none, the empty text
QueryTexts ==
  { <<"a","l"," ","x","l","p","e">>,
    <<"a","l"," ","a","l"," ","p","v","c">>,
    <<"C","u"," ","c","a","b","l","e"," ","c","u">>,
    <<"s","t","e","e","l">>,
    <<>> }

\* k is 1..MaxK
MaxK == 3

\* the index instances; they share the snapshot path VECTOR_DB_PATH
Instances == {"A", "B"}

\* the requirement text of test_full_matching_pipeline
PipelineTestText ==
  <<"1","1","k","V"," ","3","C"," ","x"," ","3","0","0","s","q","m","m"," ",
    "A","l"," ","X","L","P","E"," ","G","I"," ","S","t","r","i","p"," ",
    "A","r","m","o","u","r","e","d"," ","C","a","b","l","e">>

\* the same requirement spelled out
SpelledOutText ==
  <<"1","1","k","V"," ","3"," ","C","o","r","e"," ","3","0","0"," ","s","q",
    " ","m","m"," ","A","l","u","m","i","n","i","u","m"," ","X","L","P","E",
    " ","G","I"," ","S","t","r","i","p"," ","A","r","m","o","u","r","e","d",
    " ","C","a","b","l","e">>

---------------------------------------------------------------------------
(* src/utils/match_engine.py: generate_comparison_table *)

RECURSIVE Digits(_)
\* the decimal digits of n >= 0
Digits(n) ==
  IF n < 10 THEN <<DigitChars[n + 1]>>
  ELSE Digits(n \div 10) \o <<DigitChars[(n % 10) + 1]>>

\* str(value) if value else placeholder
Shown(value, placeholder) ==
  IF value.kind = "str" /\ value.val # <<>> THEN PyStr(value.val)
  ELSE IF value.kind = "int" /\ value.val > 0 THEN PyStr(Digits(value.val))
  ELSE IF value.kind = "int" /\ value.val < 0
    THEN PyStr(<<"-">> \o Digits(-value.val))
  ELSE PyStr(placeholder)

\* the flag set only by a comparison that gives the full credit
ColumnMatch_exact(attr_name, rfp_value, oem_value) ==
  IF IsNone(rfp_value) THEN TRUE
  ELSE IF IsNone(oem_value) THEN FALSE
  ELSE _compare_attribute(attr_name, rfp_value, oem_value) = CreditOne

\* what is appended to sku_matches for one product
ColumnMatch(attr_name, rfp_value, oem_value) ==
  IF IsNone(rfp_value) THEN TRUE
  ELSE IF IsNone(oem_value) THEN FALSE
  ELSE _compare_attribute(attr_name, rfp_value, oem_value) > 0

\* the rows without the padding: a column only for each product given
generate_comparison_table_unpadded(ws, rfp, specs) ==
  [a \in 1..Len(ws) |->
     [attribute_name  |-> ws[a].name,
      rfp_requirement |-> Shown(DictGet(rfp, ws[a].name),
                                <<"N","o","t"," ","s","p","e","c","i","f","i","e","d">>),
      sku_values      |->
        [i \in 1..Len(specs) |->
           Shown(DictGet(specs[i], ws[a].name), <<"N","/","A">>)],
      sku_matches     |->
        [i \in 1..Len(specs) |->
           ColumnMatch(ws[a].name, DictGet(rfp, ws[a].name),
                       DictGet(specs[i], ws[a].name))]]]

\* one row per key of self.weights; specs are the specs of top_3_products.
\* sku_values and sku_matches take products[:3] and are padded to three with
\* None and False
generate_comparison_table(ws, rfp, specs) ==
  [a \in 1..Len(ws) |->
     [attribute_name  |-> ws[a].name,
      rfp_requirement |-> Shown(DictGet(rfp, ws[a].name),
                                <<"N","o","t"," ","s","p","e","c","i","f","i","e","d">>),
      sku_values      |->
        [i \in 1..3 |->
           IF i <= Len(specs)
           THEN Shown(DictGet(specs[i], ws[a].name), <<"N","/","A">>)
           ELSE None],
      sku_matches     |->
        [i \in 1..3 |->
           i <= Len(specs)
             /\ ColumnMatch(ws[a].name, DictGet(rfp, ws[a].name),
                            DictGet(specs[i], ws[a].name))]]]

---------------------------------------------------------------------------
(* src/agents/technical_agent.py: _process_single_item *)

\* match_product(item, candidate): the result carries the candidate's sku_id
ProductMatch(ws, rfp, sku_id) ==
  [sku_id |-> sku_id] @@ match_product(ws, rfp, OEMProduct(sku_id).specs)

\* the candidates left in the order of the search
SortedByScore_unsorted(scored) == scored

\* the descending sort with equal scores in the reverse of their order
SortedByScore_ties_reversed(scored) ==
  [p \in 1..Len(scored) |->
     scored[Ascending([i \in 1..Len(scored) |->
                         -(scored[i].match_score * (Len(scored) + 1)) - i])[p]]]

\* scored_candidates.sort(key=lambda x: x[1].match_score, reverse=True):
\* the sort is stable, equal scores keep their order
SortedByScore(scored) ==
  [p \in 1..Len(scored) |->
     scored[Ascending([i \in 1..Len(scored) |-> -scored[i].match_score])[p]]]

\* the recommendation_notes: which sentence, and the notes it cites
Notes(best_match) ==
  IF best_match.match_status = "exact_match"
    THEN [says |-> "Excellent match. Product meets all RFP specifications.",
          cites |-> <<>>]
  ELSE IF best_match.match_status = "close_match"
    THEN [says |-> "Good match with minor deviations",
          cites |-> SubSeq(best_match.deviation_notes, 1,
                           Min(2, Len(best_match.deviation_notes)))]
  ELSE IF best_match.match_status = "partial_match"
    THEN [says |-> "Partial match. Consider requesting custom SKU.",
          cites |-> SubSeq(best_match.deviation_notes, 1,
                           Min(2, Len(best_match.deviation_notes)))]
  ELSE [says |-> "No suitable match found. Custom SKU required.", cites |-> <<>>]

\* the ItemRecommendation of an item without candidates
NoMatch(item) ==
  [item_id               |-> item.item_id,
   rfp_spec_raw          |-> item.rfp_spec_raw,
   rfp_attributes        |-> item.extracted_attributes,
   top_3_matches         |-> <<>>,
   comparison_table      |-> <<>>,
   recommended_sku       |-> "NO_MATCH",
   recommended_sku_score |-> 0,
   recommendation_notes  |->
     [says |-> "No candidate products found in database", cites |-> <<>>]]

\* the ItemRecommendation built from the top matches
Recommendation(ws, item, top_3) ==
  [item_id               |-> item.item_id,
   rfp_spec_raw          |-> item.rfp_spec_raw,
   rfp_attributes        |-> item.extracted_attributes,
   top_3_matches         |-> top_3,
   comparison_table      |->
     generate_comparison_table(
       ws, item.extracted_attributes,
       [i \in 1..Len(top_3) |-> OEMProduct(top_3[i].sku_id).specs]),
   recommended_sku       |-> top_3[1].sku_id,
   recommended_sku_score |-> top_3[1].match_score,
   recommendation_notes  |-> Notes(top_3[1])]

\* self._process_single_item(item): the recommendation, or the error raised
\* by the search; the candidates are scored, sorted, and the first
\* TOP_N_RECOMMENDATIONS kept
_process_single_item(vector_db, with_faiss, kind, ws, item) ==
  LET process(candidates) ==
        IF DidRaise(candidates) THEN candidates
        ELSE IF candidates.value = <<>> THEN [value |-> NoMatch(item)]
        ELSE [value |->
                Recommendation(
                  ws, item,
                  SubSeq(SortedByScore(
                           [i \in 1..Len(candidates.value) |->
                              ProductMatch(ws, item.extracted_attributes,
                                           candidates.value[i])]),
                         1, Min(TOP_N_RECOMMENDATIONS, Len(candidates.value))))]
  IN process(similarity_search(vector_db, with_faiss, kind, item.rfp_spec_raw,
                               TOP_K_CANDIDATES))

---------------------------------------------------------------------------
(* The index instances and what the process was started with *)

\* no call on the index in progress
NoCall == [op |-> "none"]

\* the instances as constructed, nothing saved, and what the process was
\* started with: faiss importable or not, the order in which np.argsort
\* leaves equal keys, and the hash seed.  The calls on the engine read none
\* of them
InitIndex ==
  /\ faiss \in BOOLEAN
  /\ argsort \in {"stable", "unstable"}
  /\ hashseed \in {0, 1}
  /\ db = [i \in Instances |-> VectorDatabase]
  /\ files = NoFiles
  /\ embedder = SimpleEmbedder(EMBEDDING_DIMENSION)
  /\ task = None
  /\ ret = NoCall

---------------------------------------------------------------------------
(* The engine and its caller *)

NoResult == [none |-> TRUE]

\* engine = SpecMatchEngine(): the engine of TechnicalAgentSystem and of the tests
Init ==
  /\ engine = "ready"
  /\ weights = ATTRIBUTE_WEIGHTS
  /\ pc = "idle"
  /\ rfp_attrs = ExtractedAttributes
  /\ oem_attrs = ExtractedAttributes
  /\ result = NoResult
  /\ InitIndex /\ faiss = TRUE /\ argsort = "stable" /\ hashseed = 0

\* no engine constructed yet
InitW ==
  /\ engine = "none"
  /\ weights = <<>>
  /\ pc = "idle"
  /\ rfp_attrs = ExtractedAttributes
  /\ oem_attrs = ExtractedAttributes
  /\ result = NoResult
  /\ InitIndex /\ faiss = TRUE /\ argsort = "stable" /\ hashseed = 0

\* SpecMatchEngine(arg): self.weights is set, then the sum is checked
Construct(arg) ==
  /\ engine = "none"
  /\ weights' = SelfWeights(arg)
  /\ engine' = IF WeightsRejected(SelfWeights(arg)) THEN "ValueError" ELSE "ready"
  /\ UNCHANGED <<pc, rfp_attrs, oem_attrs, result, indexVars>>

\* score, matched, mismatched, missing = engine.calculate_match_score(r, c)
CalculateMatchScore(r, c) ==
  /\ engine = "ready"
  /\ pc = "idle"
  /\ rfp_attrs' = r
  /\ oem_attrs' = c
  /\ result' = calculate_match_score(weights, r, c)
  /\ pc' = "scored"
  /\ UNCHANGED <<engine, weights, indexVars>>

\* match = engine.match_product(rfp_item, product)
MatchProduct(r, c) ==
  /\ engine = "ready"
  /\ pc = "idle"
  /\ rfp_attrs' = r
  /\ oem_attrs' = c
  /\ result' = match_product(weights, r, c)
  /\ pc' = "matched"
  /\ UNCHANGED <<engine, weights, indexVars>>

\* the caller is done with the returned value
Return ==
  /\ pc # "idle"
  /\ pc' = "idle"
  /\ rfp_attrs' = ExtractedAttributes
  /\ oem_attrs' = ExtractedAttributes
  /\ result' = NoResult
  /\ UNCHANGED <<engine, weights, indexVars>>

\* the (requirement, candidate) pairs given to the default engine
Pairs == Records \X Records

\* the pairs given to an engine built from a weights argument
PairsW == (Near(FullRec) \X Near(FullRec)) \cup ({ExtractedAttributes} \X Records)

Score == \E p \in Pairs : CalculateMatchScore(p[1], p[2])

Match == \E p \in Pairs : MatchProduct(p[1], p[2])

ScoreW == \E p \in PairsW : CalculateMatchScore(p[1], p[2])

MatchW == \E p \in PairsW : MatchProduct(p[1], p[2])

New == \E arg \in WeightArgs : Construct(arg)

Next == Score \/ Match \/ Return

NextW == New \/ ScoreW \/ MatchW \/ Return

Spec == Init /\ [][Next]_vars

SpecW == InitW /\ [][NextW]_vars

---------------------------------------------------------------------------
(* The index instances, the snapshot files and their callers *)

\* the engine of TechnicalAgentSystem, the instances and an embedder
InitDB ==
  /\ engine = "ready"
  /\ weights = ATTRIBUTE_WEIGHTS
  /\ pc = "idle"
  /\ rfp_attrs = ExtractedAttributes
  /\ oem_attrs = ExtractedAttributes
  /\ result = NoResult
  /\ InitIndex

\* db[i].initialize_from_products(products); load_oem_products(products) of
\* the agent is this call on its index, which another thread may make between
\* two items of a process_rfp
InitializeFromProducts(i, products) ==
  /\ ret = NoCall /\ task.kind \in {"None", "process_rfp"}
  /\ \E r \in {initialize_from_products(db[i], faiss, products, Texts(products),
                                         hashseed)} :
       /\ db' = [db EXCEPT ![i] = r.self]
       /\ ret' = [op |-> "initialize_from_products", inst |-> i,
                  products |-> products, out |-> r.out]
  /\ UNCHANGED <<faiss, argsort, hashseed, files, embedder, task, engineVars>>

\* db[i].save()
Save(i) ==
  /\ ret = NoCall /\ task = None
  /\ files' = save(db[i], faiss, files)
  /\ ret' = [op |-> "save", inst |-> i, out |-> [value |-> None]]
  /\ UNCHANGED <<faiss, argsort, hashseed, db, embedder, task, engineVars>>

\* db[i].load()
Load(i) ==
  /\ ret = NoCall /\ task = None
  /\ \E r \in {load(db[i], faiss, files)} :
       /\ db' = [db EXCEPT ![i] = r.self]
       /\ ret' = [op |-> "load", inst |-> i, out |-> [value |-> r.value]]
  /\ UNCHANGED <<faiss, argsort, hashseed, files, embedder, task, engineVars>>

\* a search that fits the embedder of the instance on the query
SimilaritySearch_fits(i, query_text, k) ==
  /\ ret = NoCall
  /\ db' = [db EXCEPT ![i].embedder = fit(@, <<query_text>>, hashseed)]
  /\ ret' = [op |-> "similarity_search", inst |-> i, query_text |-> query_text,
             k |-> k, out |-> similarity_search(db[i], faiss, argsort, query_text, k)]
  /\ UNCHANGED <<faiss, argsort, hashseed, files, embedder, task, engineVars>>

\* db[i].similarity_search(query_text, k)
SimilaritySearch(i, query_text, k) ==
  /\ ret = NoCall
  /\ ret' = [op |-> "similarity_search", inst |-> i, query_text |-> query_text,
             k |-> k, out |-> similarity_search(db[i], faiss, argsort, query_text, k)]
  /\ UNCHANGED <<faiss, argsort, hashseed, db, files, embedder, task, engineVars>>

\* db[i].embedder.embed(text)
Embed(i, text) ==
  /\ ret = NoCall
  /\ ret' = [op |-> "embed", inst |-> i, text |-> text,
             out |-> embed(db[i].embedder, text)]
  /\ UNCHANGED <<faiss, argsort, hashseed, db, files, embedder, task, engineVars>>

\* the caller is done with what the call returned or raised
ReturnDB ==
  /\ ret # NoCall
  /\ ret' = NoCall
  /\ UNCHANGED <<faiss, argsort, hashseed, db, files, embedder, task, engineVars>>

NextDB ==
  \/ \E i \in Instances, products \in Catalogs : InitializeFromProducts(i, products)
  \/ \E i \in Instances : Save(i)
  \/ \E i \in Instances : Load(i)
  \/ \E i \in Instances, query_text \in QueryTexts, k \in 1..MaxK :
       SimilaritySearch(i, query_text, k)
  \/ \E i \in Instances, text \in QueryTexts : Embed(i, text)
  \/ ReturnDB

SpecDB == InitDB /\ [][NextDB]_vars

---------------------------------------------------------------------------
(* Snapshots that are only partly on disk *)

\* db[i].save() ended after the products file was written: open() or
\* pickle.dump() of the embedder file raising OSError, or the process of the
\* instance ending there
SaveInterrupted(i) ==
  /\ ret = NoCall /\ task = None
  /\ files' = [files EXCEPT !.products = [kind |-> "json", val |-> db[i].products]]
  /\ ret' = [op |-> "save", inst |-> i, out |-> Raised("OSError")]
  /\ UNCHANGED <<faiss, argsort, hashseed, db, embedder, task, engineVars>>

\* builds, saves that end or are interrupted, loads and searches on the two
\* instances
NextSnapshot ==
  \/ \E i \in Instances, products \in {<<"T-AL-1">>, <<"T-CU-1", "T-AL-1", "T-XL-1">>} :
       InitializeFromProducts(i, products)
  \/ \E i \in Instances : Save(i)
  \/ \E i \in Instances : SaveInterrupted(i)
  \/ \E i \in Instances : Load(i)
  \/ \E i \in Instances :
       SimilaritySearch(i, <<"C","u"," ","c","a","b","l","e"," ","c","u">>, MaxK)
  \/ ReturnDB

SpecSnapshot == InitDB /\ [][NextSnapshot]_vars

---------------------------------------------------------------------------
(* A SimpleEmbedder used on its own *)

\* embedder = SimpleEmbedder(dimension)
NewEmbedder(dimension) ==
  /\ ret = NoCall
  /\ embedder' = SimpleEmbedder(dimension)
  /\ ret' = [op |-> "SimpleEmbedder", dimension |-> dimension, out |-> [value |-> None]]
  /\ UNCHANGED <<faiss, argsort, hashseed, db, files, task, engineVars>>

\* embedder.fit(texts)
Fit(texts) ==
  /\ ret = NoCall
  /\ embedder' = fit(embedder, texts, hashseed)
  /\ ret' = [op |-> "fit", texts |-> texts, out |-> [value |-> None]]
  /\ UNCHANGED <<faiss, argsort, hashseed, db, files, task, engineVars>>

\* the dimensions are 1, 2 and the program's; the corpora have no text, one
\* text, and two and three texts that share terms or not
NextFit ==
  \/ \E dimension \in {1, 2, EMBEDDING_DIMENSION} : NewEmbedder(dimension)
  \/ \E texts \in { <<>>,
                    <<TestTexts.al>>,
                    <<TestTexts.cu, TestTexts.al>>,
                    <<TestTexts.cu, TestTexts.pvc, TestTexts.al>>,
                    <<TestTexts.pvc, TestTexts.pvc>> } : Fit(texts)
  \/ ReturnDB

SpecFit == InitDB /\ [][NextFit]_vars

---------------------------------------------------------------------------
(* TechnicalAgentSystem: its index is instance "A", its engine the default *)

\* agent._process_single_item(item)
ProcessSingleItem(item) ==
  /\ ret = NoCall
  /\ ret' = [op |-> "_process_single_item", item |-> item,
             out |-> _process_single_item(db["A"], faiss, argsort, weights, item)]
  /\ UNCHANGED <<faiss, argsort, hashseed, db, files, embedder, task, engineVars>>

\* agent.match_engine.generate_comparison_table(rfp_item, top_3_products)
GenerateComparisonTable(rfp, products) ==
  /\ ret = NoCall
  /\ ret' = [op |-> "generate_comparison_table", rfp |-> rfp, products |-> products,
             out |-> [value |->
                        generate_comparison_table(
                          weights, rfp,
                          [i \in 1..Len(products) |-> OEMProduct(products[i]).specs])]]
  /\ UNCHANGED <<faiss, argsort, hashseed, db, files, embedder, task, engineVars>>

\* the candidate lists given to generate_comparison_table: none, one, two and
\* three products
TableProducts ==
  { <<>>,
    <<"T-CU-1">>,
    <<"T-AL-2", "T-PVC-1">>,
    <<"T-AL-1", "T-XL-1", "T-CU-1">> }

\* the catalogs are the reference products and three small ones; the items
\* have the two requirement texts and the attribute records near the full one
NextAgent ==
  \/ \E products \in {get_sample_oem_products, <<"T-AL-1", "T-AL-2", "T-CU-1">>} :
       InitializeFromProducts("A", products)
  \/ \E t \in {PipelineTestText, SpelledOutText}, r \in Near(FullRec) :
       ProcessSingleItem([item_id |-> 1, rfp_spec_raw |-> t,
                          extracted_attributes |-> r])
  \/ \E r \in Near(FullRec), products \in TableProducts :
       GenerateComparisonTable(r, products)
  \/ ReturnDB

SpecAgent == InitDB /\ [][NextAgent]_vars

---------------------------------------------------------------------------
(* process_rfp, one step per iteration of its loop.  scope_items is what    *)
(* _extract_scope_of_supply returned; the rfp_id and the timestamp are only *)
(* copied to the output and are left out                                    *)

\* the start of process_rfp: the output for no items, or the empty lists and
\* the counters at zero
ProcessRfp(scope_items) ==
  /\ ret = NoCall /\ task = None
  /\ IF scope_items = <<>>
     THEN /\ ret' = [op |-> "process_rfp", scope_items |-> scope_items,
                     out |-> [value |->
                       [total_items_processed |-> 0,
                        successful_matches    |-> 0,
                        partial_matches       |-> 0,
                        no_matches            |-> 0,
                        recommendations       |-> <<>>,
                        summary_table         |-> <<>>,
                        alerts                |->
                          <<[says |-> "Failed to extract any items from RFP Scope of Supply"]>>]]]
          /\ task' = task
     ELSE /\ task' = [kind |-> "process_rfp", scope_items |-> scope_items, at |-> 1,
                      recommendations |-> <<>>, alerts |-> <<>>,
                      successful |-> 0, partial |-> 0, no_match |-> 0]
          /\ ret' = ret
  /\ UNCHANGED <<faiss, argsort, hashseed, db, files, embedder, engineVars>>

\* the iteration with the counter of the except branch left out
ProcessRfpItem_uncounted ==
  /\ ret = NoCall
  /\ task.kind = "process_rfp" /\ task.at <= Len(task.scope_items)
  /\ \E r \in {_process_single_item(db["A"], faiss, argsort, weights,
                                      task.scope_items[task.at])} :
       task' =
         IF DidRaise(r)
         THEN [task EXCEPT !.at = @ + 1,
                 !.alerts = Append(@, [says |-> "Error processing item",
                                       item_id |-> task.scope_items[task.at].item_id,
                                       error |-> r.raised])]
         ELSE IF r.value.recommended_sku_score >= 9500
         THEN [task EXCEPT !.at = @ + 1,
                 !.recommendations = Append(@, r.value), !.successful = @ + 1]
         ELSE IF r.value.recommended_sku_score >= MINIMUM_MATCH_THRESHOLD
         THEN [task EXCEPT !.at = @ + 1,
                 !.recommendations = Append(@, r.value), !.partial = @ + 1]
         ELSE [task EXCEPT !.at = @ + 1,
                 !.recommendations = Append(@, r.value), !.no_match = @ + 1,
                 !.alerts = Append(@, [says |-> "No suitable match found",
                                       item_id |-> task.scope_items[task.at].item_id,
                                       score |-> r.value.recommended_sku_score])]
  /\ UNCHANGED <<faiss, argsort, hashseed, db, files, embedder, ret, engineVars>>

\* one iteration of `for item in scope_items`: the try and the except
ProcessRfpItem ==
  /\ ret = NoCall
  /\ task.kind = "process_rfp" /\ task.at <= Len(task.scope_items)
  /\ \E r \in {_process_single_item(db["A"], faiss, argsort, weights,
                                      task.scope_items[task.at])} :
       task' =
         IF DidRaise(r)
         THEN [task EXCEPT !.at = @ + 1, !.no_match = @ + 1,
                 !.alerts = Append(@, [says |-> "Error processing item",
                                       item_id |-> task.scope_items[task.at].item_id,
                                       error |-> r.raised])]
         ELSE IF r.value.recommended_sku_score >= 9500
         THEN [task EXCEPT !.at = @ + 1,
                 !.recommendations = Append(@, r.value), !.successful = @ + 1]
         ELSE IF r.value.recommended_sku_score >= MINIMUM_MATCH_THRESHOLD
         THEN [task EXCEPT !.at = @ + 1,
                 !.recommendations = Append(@, r.value), !.partial = @ + 1]
         ELSE [task EXCEPT !.at = @ + 1,
                 !.recommendations = Append(@, r.value), !.no_match = @ + 1,
                 !.alerts = Append(@, [says |-> "No suitable match found",
                                       item_id |-> task.scope_items[task.at].item_id,
                                       score |-> r.value.recommended_sku_score])]
  /\ UNCHANGED <<faiss, argsort, hashseed, db, files, embedder, ret, engineVars>>

\* after the loop: _build_summary_table(recommendations) and the output
ProcessRfpReturn ==
  /\ ret = NoCall
  /\ task.kind = "process_rfp" /\ task.at > Len(task.scope_items)
  /\ ret' = [op |-> "process_rfp", scope_items |-> task.scope_items,
             out |-> [value |->
               [total_items_processed |-> Len(task.scope_items),
                successful_matches    |-> task.successful,
                partial_matches       |-> task.partial,
                no_matches            |-> task.no_match,
                recommendations       |-> task.recommendations,
                summary_table         |->
                  [i \in 1..Len(task.recommendations) |->
                     [item_id         |-> task.recommendations[i].item_id,
                      recommended_sku |-> task.recommendations[i].recommended_sku,
                      match_score     |-> task.recommendations[i].recommended_sku_score,
                      match_status    |->
                        IF task.recommendations[i].top_3_matches # <<>>
                        THEN task.recommendations[i].top_3_matches[1].match_status
                        ELSE "no_match"]],
                alerts                |-> task.alerts]]]
  /\ task' = None
  /\ UNCHANGED <<faiss, argsort, hashseed, db, files, embedder, engineVars>>

\* the batches have up to two of three items: one that a product of the
\* catalogs meets, one whose best score is 85, one whose best score is 40;
\* the index is built, or built again, at any point of a batch
NextBatch ==
  LET item(id, attrs) ==
        [item_id |-> id, rfp_spec_raw |-> PipelineTestText,
         extracted_attributes |-> attrs]
      items ==
        { item(1, FullRec),
          item(2, [FullRec EXCEPT !.core_count = PyInt(4)]),
          item(3, [FullRec EXCEPT !.voltage = PyStr(S33kv),
                                  !.core_count = PyInt(4),
                                  !.insulation = PyStr(<<"p","v","c">>),
                                  !.armouring = PyStr(<<"s","w","a">>)]) }
  IN  \/ \E scope_items \in {<<>>} \cup {<<a>> : a \in items}
                               \cup {<<a, b>> : a \in items, b \in items} :
           ProcessRfp(scope_items)
      \/ ProcessRfpItem
      \/ ProcessRfpReturn
      \/ \E products \in {<<"T-AL-1", "T-AL-2", "T-CU-1">>, <<"T-CU-1">>} :
           InitializeFromProducts("A", products)
      \/ ReturnDB

SpecBatch == InitDB /\ [][NextBatch]_vars

---------------------------------------------------------------------------
(* A rebuild or a load running in one thread while another thread searches: *)
(* the statements of initialize_from_products and of load, one step each.   *)
(* task is None, or the instance, the products and the next statement of    *)
(* the build or load in progress                                            *)

\* the check of the argument and self.products = products
BuildStart(i, products) ==
  /\ ret = NoCall /\ task = None
  /\ products # <<>>
  /\ db' = [db EXCEPT ![i].products = products]
  /\ task' = [kind |-> "build", inst |-> i, products |-> products, at |-> "fit"]
  /\ UNCHANGED <<faiss, argsort, hashseed, files, embedder, ret, engineVars>>

\* self.embedder.fit(texts)
BuildFit ==
  /\ ret = NoCall
  /\ task.kind = "build" /\ task.at = "fit"
  /\ db' = [db EXCEPT ![task.inst].embedder = fit(@, Texts(task.products), hashseed)]
  /\ task' = [task EXCEPT !.at = "index"]
  /\ UNCHANGED <<faiss, argsort, hashseed, files, embedder, ret, engineVars>>

\* the embeddings and the index
BuildVectors ==
  /\ ret = NoCall
  /\ task.kind = "build" /\ task.at = "index"
  /\ db' = [db EXCEPT ![task.inst] =
              StoreEmbeddings(@, faiss, embed_batch(@.embedder, Texts(task.products)))]
  /\ task' = [task EXCEPT !.at = "flag"]
  /\ UNCHANGED <<faiss, argsort, hashseed, files, embedder, ret, engineVars>>

\* self.is_initialized = True, the last statement of both methods
Finish ==
  /\ ret = NoCall
  /\ task.kind \in {"build", "load"} /\ task.at = "flag"
  /\ db' = [db EXCEPT ![task.inst].is_initialized = TRUE]
  /\ task' = None
  /\ UNCHANGED <<faiss, argsort, hashseed, files, embedder, ret, engineVars>>

\* the products file is read
LoadStart(i) ==
  /\ ret = NoCall /\ task = None
  /\ ~IsNone(files.products)
  /\ db' = [db EXCEPT ![i].products = files.products.val]
  /\ task' = [kind |-> "load", inst |-> i, at |-> "embedder"]
  /\ UNCHANGED <<faiss, argsort, hashseed, files, embedder, ret, engineVars>>

\* the embedder file is read, or load returns False for want of it
LoadState ==
  /\ ret = NoCall
  /\ task.kind = "load" /\ task.at = "embedder"
  /\ db' = IF IsNone(files.embedder) THEN db
           ELSE [db EXCEPT ![task.inst].embedder = files.embedder.val]
  /\ task' = IF IsNone(files.embedder) THEN None ELSE [task EXCEPT !.at = "index"]
  /\ UNCHANGED <<faiss, argsort, hashseed, files, embedder, ret, engineVars>>

\* the index or the embeddings are read
LoadRows ==
  /\ ret = NoCall
  /\ task.kind = "load" /\ task.at = "index"
  /\ db' = [db EXCEPT ![task.inst] = LoadVectors(@, faiss, files)]
  /\ task' = [task EXCEPT !.at = "flag"]
  /\ UNCHANGED <<faiss, argsort, hashseed, files, embedder, ret, engineVars>>

\* one thread builds instance "A", saves it once built, and loads it; the
\* other searches it
NextThreads ==
  \/ \E products \in {<<"T-AL-1">>,
                      <<"T-PVC-1", "T-CU-1", "T-AL-1", "T-XL-1", "T-AL-2">>} :
       BuildStart("A", products)
  \/ BuildFit \/ BuildVectors \/ Finish
  \/ LoadStart("A") \/ LoadState \/ LoadRows
  \/ db["A"].is_initialized /\ Save("A")
  \/ \E query_text \in QueryTexts, k \in 1..MaxK : SimilaritySearch("A", query_text, k)
  \/ ReturnDB

SpecThreads == InitDB /\ [][NextThreads]_vars

---------------------------------------------------------------------------
(* What a call returned, whichever of the two operations ran *)

Called == pc # "idle"

ResScore == IF pc = "matched" THEN result.match_score ELSE result.score

ResMatched == IF pc = "matched" THEN result.matched_attributes ELSE result.matched

ResMismatched ==
  IF pc = "matched" THEN result.mismatched_attributes ELSE result.mismatched

ResMissing == IF pc = "matched" THEN result.missing_attributes ELSE result.missing

Has(seq, x) == \E i \in 1..Len(seq) : seq[i] = x

\* a weight as hundredths of a percent of the score
Percent(w) == (w * 10000) \div WeightScale

WeightOf(a) == weights[CHOOSE i \in 1..Len(weights) : weights[i].name = a].w

Weighted(a) == \E i \in 1..Len(weights) : weights[i].name = a

Specified(attrs, a) == ~IsNone(DictGet(attrs, a))

\* the two records hold the same thing for a: both nothing, or values equal
\* after normalization
Agree(a) ==
  IF Specified(rfp_attrs, a) /\ Specified(oem_attrs, a)
  THEN Normalized(rfp_attrs[a]) = Normalized(oem_attrs[a])
  ELSE ~Specified(rfp_attrs, a) /\ ~Specified(oem_attrs, a)

\* both records hold a value for a and the values differ after normalization
Differ(a) ==
  /\ Specified(rfp_attrs, a) /\ Specified(oem_attrs, a)
  /\ Normalized(rfp_attrs[a]) # Normalized(oem_attrs[a])

RecordedMatched(a) ==
  /\ Has(ResMatched, a)
  /\ ~Has(ResMismatched, a) /\ ~Has(ResMismatched, a \o " (partial)")
  /\ ~Has(ResMissing, a)

RecordedPartial(a) ==
  /\ Has(ResMismatched, a \o " (partial)")
  /\ ~Has(ResMismatched, a) /\ ~Has(ResMatched, a) /\ ~Has(ResMissing, a)

RecordedMismatched(a) ==
  /\ Has(ResMismatched, a)
  /\ ~Has(ResMismatched, a \o " (partial)")
  /\ ~Has(ResMatched, a) /\ ~Has(ResMissing, a)

RecordedMissing(a) ==
  /\ Has(ResMissing, a)
  /\ ~Has(ResMatched, a)
  /\ ~Has(ResMismatched, a) /\ ~Has(ResMismatched, a \o " (partial)")

NotRecorded(a) ==
  /\ ~Has(ResMatched, a) /\ ~Has(ResMissing, a)
  /\ ~Has(ResMismatched, a) /\ ~Has(ResMismatched, a \o " (partial)")

\* the magnitude, in hundredths, that each voltage text of the inputs stands
\* for; -1 for a text that is no number
VoltageMagnitude(v) ==
  CASE v = PyStr(S11kv) -> 1100
    [] v = PyStr(S33kv) -> 3300
    [] v = PyStr(<<"1",".","1","k","v">>) -> 110
    [] v = PyStr(<<"1","1",".","0","5","k","v">>) -> 1105
    [] v = PyStr(<<"1","1"," ","k","V">>) -> 1100
    [] v = PyStr(<<"4","1","5","v">>) -> 41500
    [] OTHER -> -1

\* the same for the cross-section texts
CrossSectionMagnitude(v) ==
  CASE v = PyStr(S300sqmm) -> 30000
    [] v = PyStr(S400sqmm) -> 40000
    [] v = PyStr(S240sqmm) -> 24000
    [] v = PyStr(<<"3","0","0",".","0","5","s","q","m","m">>) -> 30005
    [] OTHER -> -1

---------------------------------------------------------------------------
(* Claims *)

\* C1: when requirement and candidate both give a voltage and the two differ
\* after normalization, magnitudes within 0.1 of each other earn credit 1
\* (recorded matched), a higher candidate magnitude earns 0.8 (recorded
\* mismatched with the "(partial)" qualifier) and a lower one earns 0 (plain
\* mismatched).  With the default weights and everything else equal,
\* 11kv against 33kv scores 95.0 and 33kv against 11kv scores 75.0.
C1_VoltageComparator ==
  (Called /\ Differ("voltage")
     /\ VoltageMagnitude(rfp_attrs.voltage) >= 0
     /\ VoltageMagnitude(oem_attrs.voltage) >= 0) =>
    LET rfp_num == VoltageMagnitude(rfp_attrs.voltage)
        oem_num == VoltageMagnitude(oem_attrs.voltage)
        credit  == _compare_attribute("voltage", rfp_attrs.voltage, oem_attrs.voltage)
        others  == \A a \in FieldSet \ {"voltage"} : Agree(a) /\ Specified(rfp_attrs, a)
    IN  /\ Abs(rfp_num - oem_num) < 10 =>
             credit = CreditOne /\ RecordedMatched("voltage")
        /\ (Abs(rfp_num - oem_num) >= 10 /\ oem_num > rfp_num) =>
             credit = 8 /\ RecordedPartial("voltage")
        /\ (Abs(rfp_num - oem_num) >= 10 /\ oem_num < rfp_num) =>
             credit = 0 /\ RecordedMismatched("voltage")
        /\ (others /\ rfp_num = 1100 /\ oem_num = 3300) => ResScore = 9500
        /\ (others /\ rfp_num = 3300 /\ oem_num = 1100) => ResScore = 7500

C1_Witness ==
  /\ pc = "scored"
  /\ rfp_attrs = FullRec
  /\ oem_attrs = [FullRec EXCEPT !.voltage = PyStr(S33kv)]
  /\ result.score = 9500
  /\ Has(result.mismatched, "voltage (partial)")

\* C2: for every weighted attribute, one the requirement leaves unspecified
\* earns its full weight whatever the candidate holds and is listed nowhere;
\* one the requirement specifies and the candidate lacks earns 0 and is listed
\* as missing.  score({voltage: 11kv}, {}) is 100 minus the voltage weight
\* x 100 and is strictly below score({}, {}).
C2_MissingDataPolicy ==
  Called =>
    LET names    == {weights[i].name : i \in 1..Len(weights)}
        free     == {i \in 1..Len(weights) : ~Specified(rfp_attrs, weights[i].name)}
        policy   == \A a \in names : ~Specified(rfp_attrs, a) \/ ~Specified(oem_attrs, a)
        onlyVolt == [ExtractedAttributes EXCEPT !.voltage = PyStr(S11kv)]
    IN  /\ \A a \in names :
             /\ ~Specified(rfp_attrs, a) => NotRecorded(a)
             /\ (Specified(rfp_attrs, a) /\ ~Specified(oem_attrs, a)) => RecordedMissing(a)
        /\ policy =>
             /\ ResScore = Percent(SumWeights([i \in 1..Len(weights) |->
                              IF i \in free THEN weights[i] ELSE [weights[i] EXCEPT !.w = 0]]))
             /\ ResMatched = <<>> /\ ResMismatched = <<>>
        /\ (rfp_attrs = onlyVolt /\ oem_attrs = ExtractedAttributes) =>
             /\ ResScore = 10000 - Percent(WeightOf("voltage"))
             /\ ResMissing = <<"voltage">>
             /\ ResScore < calculate_match_score(weights, ExtractedAttributes,
                                                 ExtractedAttributes).score

C2_Witness ==
  /\ pc = "scored"
  /\ rfp_attrs = [ExtractedAttributes EXCEPT !.voltage = PyStr(S11kv)]
  /\ oem_attrs = ExtractedAttributes
  /\ result.score = 7500
  /\ result.missing = <<"voltage">>

\* C3: a requirement that specifies no attribute scores exactly 100 against
\* every candidate, the empty one included, and the matched, mismatched and
\* missing lists are empty.
C3_EmptyRequirement ==
  (Called /\ rfp_attrs = ExtractedAttributes) =>
    /\ ResScore = 10000
    /\ ResMatched = <<>> /\ ResMismatched = <<>> /\ ResMissing = <<>>

C3_Witness ==
  /\ pc = "scored"
  /\ rfp_attrs = ExtractedAttributes
  /\ oem_attrs = FullRec
  /\ result.score = 10000

\* C4: a fully specified record scored against itself gets exactly 100, every
\* weighted attribute is listed as matched and nothing is listed as
\* mismatched or missing.
C4_Identity ==
  (Called /\ oem_attrs = rfp_attrs /\ \A f \in FieldSet : Specified(rfp_attrs, f)) =>
    /\ ResScore = 10000
    /\ ResMatched = [i \in 1..Len(weights) |-> weights[i].name]
    /\ ResMismatched = <<>> /\ ResMissing = <<>>

C4_Witness ==
  /\ pc = "scored"
  /\ rfp_attrs = [FullRec EXCEPT !.voltage = PyStr(<<"l","v">>)]
  /\ oem_attrs = rfp_attrs
  /\ result.score = 10000
  /\ Len(result.matched) = 7

\* C5: when the two records agree on every attribute but one equality-only
\* attribute (core_count, conductor_material, insulation, armouring,
\* sheathing) on which both hold values that differ, the score is exactly
\* 100 minus that attribute's weight x 100 and the attribute is recorded as
\* plain mismatched; a different armouring alone scores 90.
EqualityOnly == {"core_count", "conductor_material", "insulation", "armouring", "sheathing"}

C5_NoPartialCredit ==
  Called =>
    \A a \in EqualityOnly :
      (Weighted(a) /\ Differ(a) /\ \A b \in FieldSet \ {a} : Agree(b)) =>
        /\ ResScore = 10000 - Percent(WeightOf(a))
        /\ RecordedMismatched(a)
        /\ ResMissing = <<>>
        /\ (a = "armouring" => ResScore = 9000)

C5_Witness ==
  /\ pc = "scored"
  /\ rfp_attrs = FullRec
  /\ oem_attrs = [FullRec EXCEPT !.armouring = PyStr(<<"s","w","a">>)]
  /\ result.score = 9000
  /\ result.mismatched = <<"armouring">>

\* C6: when requirement and candidate both give a cross-section and the two
\* differ after normalization, magnitudes within 0.1 of each other earn
\* credit 1 (recorded matched), a higher candidate magnitude earns 0.9
\* (recorded mismatched with the "(partial)" qualifier) and a lower one earns
\* 0 (plain mismatched).
C6_CrossSectionComparator ==
  (Called /\ Differ("cross_section")
     /\ CrossSectionMagnitude(rfp_attrs.cross_section) >= 0
     /\ CrossSectionMagnitude(oem_attrs.cross_section) >= 0) =>
    LET rfp_num == CrossSectionMagnitude(rfp_attrs.cross_section)
        oem_num == CrossSectionMagnitude(oem_attrs.cross_section)
        credit  == _compare_attribute("cross_section", rfp_attrs.cross_section,
                                      oem_attrs.cross_section)
        others  == \A a \in FieldSet \ {"cross_section"} : Agree(a)
    IN  /\ Abs(rfp_num - oem_num) < 10 =>
             /\ credit = CreditOne /\ RecordedMatched("cross_section")
             /\ others => ResScore = 10000
        /\ (Abs(rfp_num - oem_num) >= 10 /\ oem_num > rfp_num) =>
             /\ credit = 9 /\ RecordedPartial("cross_section")
             /\ others => 10 * ResScore = 100000 - Percent(WeightOf("cross_section"))
        /\ (Abs(rfp_num - oem_num) >= 10 /\ oem_num < rfp_num) =>
             /\ credit = 0 /\ RecordedMismatched("cross_section")
             /\ others => ResScore = 10000 - Percent(WeightOf("cross_section"))

C6_Witness ==
  /\ pc = "scored"
  /\ rfp_attrs = FullRec
  /\ oem_attrs = [FullRec EXCEPT !.cross_section = PyStr(S400sqmm)]
  /\ result.score = 9850
  /\ result.mismatched = <<"cross_section (partial)">>

\* C7: match_product gives status EXACT iff score >= 95, CLOSE iff
\* 80 <= score < 95, PARTIAL iff 60 <= score < 80 and NONE otherwise; every
\* score gets exactly one status and a higher score never a worse one.
StatusRank(st) ==
  CASE st = "no_match" -> 0
    [] st = "partial_match" -> 1
    [] st = "close_match" -> 2
    [] st = "exact_match" -> 3

ProbeScores == {0, 5999, 6000, 6001, 7999, 8000, 9499, 9500, 10000}

C7_Classification ==
  pc = "matched" =>
    LET score  == result.match_score
        status == result.match_status
    IN  /\ status \in {"exact_match", "close_match", "partial_match", "no_match"}
        /\ status = "exact_match" <=> score >= 9500
        /\ status = "close_match" <=> (8000 <= score /\ score < 9500)
        /\ status = "partial_match" <=> (6000 <= score /\ score < 8000)
        /\ status = "no_match" <=> score < 6000
        /\ \A s \in ProbeScores :
             /\ s >= score => StatusRank(Classify(s)) >= StatusRank(status)
             /\ s <= score => StatusRank(Classify(s)) <= StatusRank(status)

C7_Witness ==
  /\ pc = "matched"
  /\ result.match_score = 6000
  /\ result.match_status = "partial_match"

\* C8: for every engine whose construction succeeds and every pair of
\* records, the score returned by calculate_match_score and stored in the
\* match result lies in [0, 100].
C8_ScoreRange == Called => (0 <= ResScore /\ ResScore <= 10000)

\* C9: construction with weights whose sum is more than 0.01 away from 1.0
\* (0.5 and 1.5 among them) fails and yields no engine; construction with a
\* sum within 0.01 of 1.0 succeeds.
C9_WeightSumValidation ==
  engine # "none" =>
    LET total == SumWeights(weights)
    IN  /\ (total < 9900 \/ total > 10100) =>
             engine = "ValueError" /\ pc = "idle" /\ result = NoResult
        /\ (9900 <= total /\ total <= 10100) => engine = "ready"
        /\ total \in {5000, 15000} => engine = "ValueError"

C9_Witness ==
  /\ engine = "ValueError"
  /\ SumWeights(weights) = 15000

C9_WitnessAccepted ==
  /\ engine = "ready"
  /\ SumWeights(weights) = 10099
  /\ pc = "matched"

\* C10: construction with a weights mapping in which some weight is
\* negative fails, also when the weights sum to 1.0 within the tolerance.
C10_NegativeWeightRejected ==
  (engine # "none" /\ \E i \in 1..Len(weights) : weights[i].w < 0) =>
    engine = "ValueError"

---------------------------------------------------------------------------
(* The index, the embedder and the pipeline: properties *)

\* the call in progress is _process_single_item on the reference catalogue
\* with the spelled-out requirement and its seven attributes
ScenarioCall ==
  /\ ret.op = "_process_single_item"
  /\ db["A"].is_initialized
  /\ db["A"].products = get_sample_oem_products
  /\ ret.item.rfp_spec_raw = SpelledOutText
  /\ ret.item.extracted_attributes = FullRec

\* the recommendation names HV-AL-XLPE-001, whose specs are the requirement's,
\* first, with 100.0 and EXACT
ScenarioOutcome ==
  /\ ~DidRaise(ret.out)
  /\ OEMProduct("HV-AL-XLPE-001").specs = FullRec
  /\ ret.out.value.recommended_sku = "HV-AL-XLPE-001"
  /\ ret.out.value.recommended_sku_score = 10000
  /\ ret.out.value.top_3_matches[1].sku_id = "HV-AL-XLPE-001"
  /\ ret.out.value.top_3_matches[1].match_score = 10000
  /\ ret.out.value.top_3_matches[1].match_status = "exact_match"

\* C11: with the 12 reference products in the index, the requirement "11kV 3
\* Core 300 sq mm Aluminium XLPE GI Strip Armoured Cable" with its seven
\* attributes, searched, scored and sorted by descending score, has
\* HV-AL-XLPE-001 as its first candidate, with score 100.0 and status EXACT
C11_EndToEnd == ScenarioCall => ScenarioOutcome

C11_Witness == ScenarioCall /\ ScenarioOutcome /\ ~faiss /\ argsort = "unstable"

---------------------------------------------------------------------------
(* The search of an index *)

\* a call of similarity_search that returned
Searched == ret.op = "similarity_search" /\ ~DidRaise(ret.out)

\* the vectors an instance searches: the rows of its index with faiss, its
\* embeddings without
StoredVectors(self) ==
  IF faiss /\ ~IsNone(self.index) THEN self.index.rows ELSE self.embeddings.rows

\* the positions of the stored vectors, nearest to the query text first by
\* squared Euclidean distance, vectors at the same distance in the order of
\* the catalog
NearestFirst(self, query_text) ==
  Ascending([j \in 1..Len(StoredVectors(self)) |->
               L2sqr(embed(self.embedder, query_text).value, StoredVectors(self)[j])])

\* C12: similarity_search returns the products in ascending order of the
\* squared Euclidean distance between the query embedding and their stored
\* embedding, products at the same distance in the order of the catalog
C12_SearchOrder ==
  Searched =>
    \A p \in 1..Len(ret.out.value) :
      ret.out.value[p] = db[ret.inst].products[NearestFirst(db[ret.inst], ret.query_text)[p]]

\* an instance that was built, or loaded from the snapshot of a built one
Built(self) == self.is_initialized /\ self.products # <<>>

\* C13: on a built index similarity_search(query_text, k) returns exactly
\* min(k, catalog size) products, each a product of the catalog and no two
\* the same, for every query text
C13_ResultSize ==
  (ret.op = "similarity_search" /\ Built(db[ret.inst])) =>
    /\ ~DidRaise(ret.out)
    /\ Len(ret.out.value) = IF ret.k < Len(db[ret.inst].products) THEN ret.k
                            ELSE Len(db[ret.inst].products)
    /\ \A p \in 1..Len(ret.out.value) :
         \E j \in 1..Len(db[ret.inst].products) :
           ret.out.value[p] = db[ret.inst].products[j]
    /\ \A p, q \in 1..Len(ret.out.value) : p # q => ret.out.value[p] # ret.out.value[q]

\* a search for a text outside the vocabulary, with k above the size of the
\* catalog, returned the one product
C13_Witness ==
  /\ Searched
  /\ Built(db[ret.inst])
  /\ ret.query_text = <<"s","t","e","e","l">>
  /\ ret.k = 3
  /\ ret.out.value = <<"T-AL-1">>

---------------------------------------------------------------------------
(* An index or an embedder that is not ready *)

\* the step completes a build of instance i, or a load into it that
\* returned True
Completes(i) ==
  /\ ret'.op \in {"initialize_from_products", "load"}
  /\ ret'.inst = i
  /\ ~DidRaise(ret'.out)
  /\ ret'.op = "load" => ret'.out.value = TRUE

\* C14: until a build or a successful load has completed on an instance,
\* similarity_search on it raises the not-initialized error and returns
\* nothing; embed on its embedder, not fitted until then, raises the
\* not-fitted error
C14_NotReady ==
  /\ [][\A i \in Instances :
          /\ ~db[i].is_initialized /\ db'[i].is_initialized => Completes(i)
          /\ ~db[i].embedder.fitted /\ db'[i].embedder.fitted => Completes(i)]_vars
  /\ [](ret.op = "similarity_search" /\ ~db[ret.inst].is_initialized =>
          ret.out = Raised("ValueError: Vector database not initialized. Call initialize_from_products first."))
  /\ [](ret.op = "embed" /\ ~db[ret.inst].embedder.fitted =>
          ret.out = Raised("ValueError: Embedder must be fitted before embedding"))

\* a search of instance B raised while A is built and its snapshot is on disk
C14_Witness ==
  /\ ret.op = "similarity_search"
  /\ ret.inst = "B"
  /\ db["B"] = VectorDatabase
  /\ Built(db["A"])
  /\ files # NoFiles
  /\ DidRaise(ret.out)

\* a call of initialize_from_products with an empty list
EmptyBuild(call) == call.op = "initialize_from_products" /\ call.products = <<>>

\* C15: initialize_from_products with an empty list raises the empty-catalog
\* error and leaves every instance as it was: unbuilt, or with the products,
\* vocabulary, idf and vectors it had
C15_EmptyCatalog ==
  [][EmptyBuild(ret') =>
       /\ ret'.out = Raised("ValueError: No products provided to initialize database")
       /\ db' = db
       /\ files' = files]_vars

\* the empty list was refused by a built instance, which kept its five
\* products
C15_Witness ==
  /\ EmptyBuild(ret)
  /\ DidRaise(ret.out)
  /\ Built(db[ret.inst])
  /\ Len(db[ret.inst].products) = 5
  /\ db[ret.inst].embedder.fitted

\* C16: where no snapshot was ever saved, load returns False, raises nothing
\* and leaves the instance as it was; an instance without products is then
\* unbuilt, and a search of it raises the not-initialized error
C16_ColdStart ==
  /\ [][(ret'.op = "load" /\ files = NoFiles) =>
          /\ ret'.out = [value |-> FALSE]
          /\ db' = db
          /\ files' = NoFiles]_vars
  /\ [](files = NoFiles /\ ret.op = "similarity_search" /\ db[ret.inst].products = <<>>
          => /\ db[ret.inst] = VectorDatabase
             /\ ret.out = Raised("ValueError: Vector database not initialized. Call initialize_from_products first."))

\* load on instance B returned False with no snapshot on disk, A being built
C16_Witness ==
  /\ ret.op = "load"
  /\ ret.inst = "B"
  /\ ret.out = [value |-> FALSE]
  /\ files = NoFiles
  /\ db["B"] = VectorDatabase
  /\ Built(db["A"])

---------------------------------------------------------------------------
(* Snapshots *)

\* the instance is built and the snapshot on disk is its own: saving it
\* again would change no file
Saved(self) == Built(self) /\ files = save(self, faiss, files)

\* both instances answer every search alike
SameSearches(a, b) ==
  \A query_text \in QueryTexts, k \in 1..MaxK :
    similarity_search(a, faiss, argsort, query_text, k)
      = similarity_search(b, faiss, argsort, query_text, k)

\* C17: after a build of one instance and its save, load into a fresh
\* instance returns True and gives it the same products, vocabulary, idf and
\* vectors, so that both answer every search with the same products in the
\* same order
C17_RoundTrip ==
  [][\A i, j \in Instances :
       (ret'.op = "load" /\ ret'.inst = i /\ db[i] = VectorDatabase /\ Saved(db[j])) =>
         /\ ret'.out = [value |-> TRUE]
         /\ db'[i].products = db[j].products
         /\ db'[i].embedder.vocabulary = db[j].embedder.vocabulary
         /\ db'[i].embedder.idf = db[j].embedder.idf
         /\ db'[i].is_initialized
         /\ SameSearches(db'[i], db[j])
         /\ StoredVectors(db'[i]) = StoredVectors(db[j])]_vars

\* instance B was loaded from the snapshot of A and holds its five products
C17_Witness ==
  /\ ret.op = "load"
  /\ ret.inst = "B"
  /\ ret.out = [value |-> TRUE]
  /\ Saved(db["A"])
  /\ Len(db["A"].products) = 5
  /\ db["B"].products = db["A"].products
  /\ StoredVectors(db["B"]) = StoredVectors(db["A"])

\* C18: similarity_search and embed leave the products, the vocabulary, the
\* idf, the vectors and is_initialized of every instance, and the files, as
\* they were, so that a second search meets the instance the first one met
C18_ReadOnly ==
  [][ret'.op \in {"similarity_search", "embed"} => db' = db /\ files' = files]_vars

\* a search of a built instance returned three of its five products
C18_Witness ==
  /\ Searched
  /\ Built(db[ret.inst])
  /\ Len(db[ret.inst].products) = 5
  /\ ret.query_text = <<"a","l"," ","a","l"," ","p","v","c">>
  /\ Len(ret.out.value) = 3

---------------------------------------------------------------------------
(* A search while the instance is rebuilt or loaded *)

\* the instance has vectors to search
HasVectors(self) == IF faiss THEN ~IsNone(self.index) ELSE ~IsNone(self.embeddings)

\* the vocabulary and the idf are those of the products of the instance, and
\* the vector at each position is the one of the product at that position
OfOneCatalog(self) ==
  /\ HasVectors(self)
  /\ self.embedder = fit(self.embedder, Texts(self.products), hashseed)
  /\ StoredVectors(self) = embed_batch(self.embedder, Texts(self.products))

\* C19: a search that runs while the instance is rebuilt or loaded meets,
\* once is_initialized is set, products, vocabulary, idf and vectors of one
\* catalog, each vector at the position of its product, and returns
C19_Exclusive ==
  (ret.op = "similarity_search" /\ db[ret.inst].is_initialized) =>
    OfOneCatalog(db[ret.inst]) /\ ~DidRaise(ret.out)

---------------------------------------------------------------------------
(* The vocabulary of fit *)

RECURSIVE Terms(_, _)
\* the terms of the first n texts, in the order in which they are read
Terms(texts, n) ==
  IF n = 0 THEN <<>> ELSE Terms(texts, n - 1) \o _tokenize(texts[n])

\* the position at which a term is first seen
FirstSeen(terms, w) ==
  CHOOSE p \in 1..Len(terms) :
    terms[p] = w /\ \A q \in 1..(p - 1) : terms[q] # w

\* the number of texts that hold a term
DocFreq(texts, w) ==
  Cardinality({d \in 1..Len(texts) :
                 \E p \in 1..Len(_tokenize(texts[d])) : _tokenize(texts[d])[p] = w})

\* the number of terms before w in the order by document frequency
\* descending, then first seen
TotalOrderRank(texts, terms, w) ==
  Cardinality({u \in {terms[p] : p \in 1..Len(terms)} :
                 \/ DocFreq(texts, u) > DocFreq(texts, w)
                 \/ /\ DocFreq(texts, u) = DocFreq(texts, w)
                    /\ FirstSeen(terms, u) < FirstSeen(terms, w)})

\* C20: fit keeps the first D terms of the corpus in the order by document
\* frequency descending, then first seen, and gives each the index of its
\* place in that order, whatever the run: also when more than D terms tie
C20_VocabularyOrder ==
  ret.op = "fit" =>
    embedder.vocabulary =
      [w \in {u \in {Terms(ret.texts, Len(ret.texts))[p] :
                       p \in 1..Len(Terms(ret.texts, Len(ret.texts)))} :
                TotalOrderRank(ret.texts, Terms(ret.texts, Len(ret.texts)), u)
                  < embedder.dimension} |->
         TotalOrderRank(ret.texts, Terms(ret.texts, Len(ret.texts)), w)]

---------------------------------------------------------------------------
(* The comparison table *)

\* a call that returned a comparison table: generate_comparison_table itself,
\* or _process_single_item on an item with candidates
HasTable ==
  \/ ret.op = "generate_comparison_table"
  \/ /\ ret.op = "_process_single_item" /\ ~DidRaise(ret.out)
     /\ ret.out.value.top_3_matches # <<>>

TableRows ==
  IF ret.op = "generate_comparison_table" THEN ret.out.value
  ELSE ret.out.value.comparison_table

TableRfp ==
  IF ret.op = "generate_comparison_table" THEN ret.rfp
  ELSE ret.item.extracted_attributes

\* the candidates of the columns, first column first
TableSkus ==
  IF ret.op = "generate_comparison_table" THEN ret.products
  ELSE [i \in 1..Len(ret.out.value.top_3_matches) |->
          ret.out.value.top_3_matches[i].sku_id]

\* what calculate_match_score records for attribute a of the requirement
\* against the candidate: credit above zero is an entry in matched or a
\* "(partial)" entry in mismatched
EarnsCredit(rfp, sku_id, a) ==
  \/ Has(calculate_match_score(weights, rfp, OEMProduct(sku_id).specs).matched, a)
  \/ Has(calculate_match_score(weights, rfp, OEMProduct(sku_id).specs).mismatched,
         a \o " (partial)")

\* C21: the comparison table has one row per weighted attribute, in the
\* order of the weights; the flag of a candidate's column is true exactly
\* when the requirement gives no value for the attribute or the attribute
\* earns credit above zero in calculate_match_score; a candidate that lacks
\* the value of a required attribute is flagged false.
C21_ComparisonFlags ==
  HasTable =>
    /\ Len(TableRows) = Len(weights)
    /\ \A a \in 1..Len(weights) :
         /\ TableRows[a].attribute_name = weights[a].name
         /\ \A i \in 1..Len(TableSkus) :
              /\ TableRows[a].sku_matches[i] <=>
                   (~Specified(TableRfp, weights[a].name)
                      \/ EarnsCredit(TableRfp, TableSkus[i], weights[a].name))
              /\ (Specified(TableRfp, weights[a].name)
                    /\ ~Specified(OEMProduct(TableSkus[i]).specs, weights[a].name))
                 => ~TableRows[a].sku_matches[i]

\* a table with a flag set by partial credit, a flag cleared for a candidate
\* without the value, and a flag cleared by a difference
C21_Witness ==
  /\ ret.op = "generate_comparison_table"
  /\ ret.rfp = [FullRec EXCEPT !.voltage = PyStr(<<"1",".","1","k","v">>)]
  /\ ret.products = <<"T-AL-1", "T-XL-1", "T-CU-1">>
  /\ ret.out.value[1].sku_matches = <<TRUE, FALSE, TRUE>>
  /\ ret.out.value[2].sku_matches = <<TRUE, FALSE, FALSE>>
  /\ ret.out.value[5].sku_matches = <<TRUE, TRUE, TRUE>>
  /\ Has(calculate_match_score(weights, ret.rfp, OEMProduct("T-AL-1").specs).mismatched,
         "voltage (partial)")

---------------------------------------------------------------------------
(* process_rfp *)

\* the alerts that report an item whose processing raised
ErrorAlerts(alerts) ==
  {i \in 1..Len(alerts) : alerts[i].says = "Error processing item"}

\* the item of the iteration about to run, and whether processing it fails
AtItem == task.scope_items[task.at]

ItemFails == DidRaise(_process_single_item(db["A"], faiss, argsort, weights, AtItem))

\* C23: in process_rfp an item whose processing fails adds exactly one alert,
\* naming it, and no recommendation, and the loop goes on to the next item;
\* an item whose processing succeeds adds its recommendation and no error
\* alert; in the output successful_matches + partial_matches + no_matches
\* equals total_items_processed, the number of items, and every item
\* has either its recommendation or its alert.
C23_BatchIsolation ==
  /\ [](ret.op = "process_rfp" =>
          /\ ret.out.value.successful_matches + ret.out.value.partial_matches
               + ret.out.value.no_matches = ret.out.value.total_items_processed
          /\ ret.out.value.total_items_processed = Len(ret.scope_items)
          /\ Len(ret.out.value.recommendations)
               + Cardinality(ErrorAlerts(ret.out.value.alerts)) = Len(ret.scope_items)
          /\ Len(ret.out.value.summary_table) = Len(ret.out.value.recommendations))
  /\ [][(task.kind = "process_rfp" /\ task' # task) =>
          IF task.at <= Len(task.scope_items)
          THEN /\ task'.kind = "process_rfp" /\ task'.at = task.at + 1
               /\ IF ItemFails
                  THEN /\ task'.recommendations = task.recommendations
                       /\ Len(task'.alerts) = Len(task.alerts) + 1
                       /\ task'.alerts[Len(task'.alerts)].says = "Error processing item"
                       /\ task'.alerts[Len(task'.alerts)].item_id = AtItem.item_id
                       /\ SubSeq(task'.alerts, 1, Len(task.alerts)) = task.alerts
                  ELSE /\ Len(task'.recommendations) = Len(task.recommendations) + 1
                       /\ task'.recommendations[Len(task'.recommendations)].item_id
                            = AtItem.item_id
                       /\ SubSeq(task'.recommendations, 1, Len(task.recommendations))
                            = task.recommendations
                       /\ ErrorAlerts(task'.alerts) = ErrorAlerts(task.alerts)
          ELSE /\ task' = None
               /\ ret'.out.value.recommendations = task.recommendations
               /\ ret'.out.value.alerts = task.alerts]_vars

\* a batch of two items whose first item failed on the index not yet built
\* and whose second item, after the build, got its recommendation
C23_Witness ==
  /\ ret.op = "process_rfp"
  /\ Len(ret.scope_items) = 2
  /\ ret.scope_items[1].item_id = 1 /\ ret.scope_items[2].item_id = 2
  /\ Len(ret.out.value.recommendations) = 1
  /\ ret.out.value.recommendations[1].item_id = 2
  /\ ret.out.value.recommendations[1].recommended_sku_score = 8500
  /\ Len(ret.out.value.alerts) = 1
  /\ ret.out.value.alerts[1].says = "Error processing item"
  /\ ret.out.value.alerts[1].item_id = 1
  /\ ret.out.value.no_matches = 1 /\ ret.out.value.partial_matches = 1
  /\ ret.out.value.successful_matches = 0
  /\ ret.out.value.total_items_processed = 2

---------------------------------------------------------------------------
(* Normalization and the lists of the result *)

\* the canonical form that each text of the inputs stands for: the pairs of
\* test_value_normalization and the other spellings among the inputs; a
\* value without another spelling stands for itself
CanonicalForm(v) ==
  CASE v \in {PyStr(<<"A","l","u","m","i","n","u","m">>),
              PyStr(<<"A","l","u","m","i","n","i","u","m">>)} -> PyStr(<<"a","l">>)
    [] v \in {PyStr(<<"C","r","o","s","s"," ","L","i","n","k","e","d"," ",
                      "P","o","l","y","e","t","h","y","l","e","n","e">>),
              PyStr(<<" ","X","L","P","E"," ">>)} -> PyStr(<<"x","l","p","e">>)
    [] v = PyStr(<<"G","I"," ","S","t","r","i","p">>) ->
         PyStr(<<"g","i","_","s","t","r","i","p">>)
    [] v = PyStr(<<"N","o","n","e">>) ->
         PyStr(<<"u","n","a","r","m","o","u","r","e","d">>)
    [] v = PyStr(<<"P","V","C">>) -> PyStr(<<"p","v","c">>)
    [] OTHER -> v

\* both records give a value for a and the two stand for one canonical form
SameForm(a) ==
  /\ Specified(rfp_attrs, a) /\ Specified(oem_attrs, a)
  /\ CanonicalForm(rfp_attrs[a]) = CanonicalForm(oem_attrs[a])

\* the texts among the values of the two records
GivenTexts ==
  {rfp_attrs[f].val : f \in {g \in FieldSet : rfp_attrs[g].kind = "str"}}
    \cup {oem_attrs[f].val : f \in {g \in FieldSet : oem_attrs[g].kind = "str"}}

\* C24: a requirement value and a candidate value that stand for the same
\* canonical form ("Aluminum" and "al", "Cross Linked Polyethylene" and
\* "xlpe", "GI Strip" and "gi_strip") earn the full weight and the attribute
\* is recorded as matched, so a pair that agrees in this way on every
\* attribute the requirement gives scores 100; normalize_value returns a text
\* for every text, the canonical form for a text that has one, and applying
\* it twice gives what applying it once gives.
C24_NormalizedEquality ==
  Called =>
    /\ \A i \in 1..Len(weights) :
         SameForm(weights[i].name) =>
           /\ RecordedMatched(weights[i].name)
           /\ _compare_attribute(weights[i].name, rfp_attrs[weights[i].name],
                                 oem_attrs[weights[i].name]) = CreditOne
    /\ (\A i \in 1..Len(weights) :
          ~Specified(rfp_attrs, weights[i].name) \/ SameForm(weights[i].name))
         => ResScore = 10000
    /\ \A t \in GivenTexts :
         /\ normalize_value(t) \in Seq({t[i] : i \in 1..Len(t)}
                                         \cup {LowerChars[i] : i \in 1..26} \cup {"_"})
         /\ normalize_value(normalize_value(t)) = normalize_value(t)
         /\ CanonicalForm(PyStr(t)) # PyStr(t) =>
              PyStr(normalize_value(t)) = CanonicalForm(PyStr(t))

\* the requirement says "Aluminum", the candidate "al"
C24_Witness ==
  /\ pc = "scored"
  /\ rfp_attrs = [FullRec EXCEPT !.conductor_material =
                    PyStr(<<"A","l","u","m","i","n","u","m">>)]
  /\ oem_attrs = FullRec
  /\ result.score = 10000
  /\ Has(result.matched, "conductor_material")
  /\ result.mismatched = <<>>

\* the credit of weighted attribute i when both records give a value
CreditOf(i) ==
  _compare_attribute(weights[i].name, rfp_attrs[weights[i].name],
                     oem_attrs[weights[i].name])

\* what the first i weighted attributes earn, in thousandths of a percent
\* (the score is in hundredths), by the list each is in: the
\* weight of one the requirement leaves out and of one listed as matched, the
\* weight times the credit of one listed as "(partial)", nothing otherwise
RECURSIVE EarnedByList(_)
EarnedByList(i) ==
  IF i = 0 THEN 0
  ELSE EarnedByList(i - 1) +
       (IF ~Specified(rfp_attrs, weights[i].name) \/ Has(ResMatched, weights[i].name)
          THEN weights[i].w * CreditOne
        ELSE IF Has(ResMismatched, weights[i].name \o " (partial)")
          THEN weights[i].w * CreditOf(i)
        ELSE 0)

\* C25: a weighted attribute the requirement leaves out is in none of the
\* three lists; one the requirement gives is in exactly one place: missing
\* when the candidate has no value, matched at credit 1, mismatched with the
\* "(partial)" mark at a credit between 0 and 1, mismatched without the mark
\* at credit 0; no list holds an entry twice; and the score is 100 times the
\* sum of the weights of the attributes left out and matched plus weight
\* times credit of the partial ones.
C25_AttributePartition ==
  Called =>
    /\ \A i \in 1..Len(weights) :
         IF ~Specified(rfp_attrs, weights[i].name) THEN NotRecorded(weights[i].name)
         ELSE IF ~Specified(oem_attrs, weights[i].name)
           THEN RecordedMissing(weights[i].name)
         ELSE IF CreditOf(i) = CreditOne THEN RecordedMatched(weights[i].name)
         ELSE IF CreditOf(i) > 0 THEN RecordedPartial(weights[i].name)
         ELSE RecordedMismatched(weights[i].name)
    /\ Len(ResMatched) + Len(ResMismatched) + Len(ResMissing)
         = Cardinality({i \in 1..Len(weights) : Specified(rfp_attrs, weights[i].name)})
    /\ \A l \in {ResMatched, ResMismatched, ResMissing} :
         \A i, j \in 1..Len(l) : l[i] = l[j] => i = j
    /\ 10 * ResScore = EarnedByList(Len(weights))

\* one attribute left out by the requirement, one partial, five matched
C25_Witness ==
  /\ pc = "scored"
  /\ rfp_attrs = [FullRec EXCEPT !.sheathing = None]
  /\ oem_attrs = [FullRec EXCEPT !.voltage = PyStr(S33kv)]
  /\ result.score = 9500
  /\ result.matched = <<"conductor_material", "cross_section", "core_count",
                        "insulation", "armouring">>
  /\ result.mismatched = <<"voltage (partial)">>
  /\ result.missing = <<>>

\* the numeric attributes whose two values differ after normalization and
\* one of which is no number
Unparsable ==
  {a \in {"voltage", "cross_section"} :
     /\ Differ(a)
     /\ IF a = "voltage"
        THEN VoltageMagnitude(rfp_attrs[a]) < 0 \/ VoltageMagnitude(oem_attrs[a]) < 0
        ELSE CrossSectionMagnitude(rfp_attrs[a]) < 0
               \/ CrossSectionMagnitude(oem_attrs[a]) < 0}

\* the pair with attribute a turned into a plain difference of two numbers,
\* the candidate's the lower one
PlainlyDiffering(attrs, a, side) ==
  [attrs EXCEPT ![a] =
     IF a = "voltage" THEN (IF side = "rfp" THEN PyStr(S33kv) ELSE PyStr(S11kv))
     ELSE (IF side = "rfp" THEN PyStr(S400sqmm) ELSE PyStr(S300sqmm))]

\* C26: when the voltage or the cross_section of requirement or candidate is
\* no number, and the two values differ after normalization, the call
\* returns a result, the attribute has credit 0 and is listed as mismatched
\* under its plain name, and score and lists are those of the same pair with
\* a lower candidate number in that attribute: the other attributes are
\* scored as usual.
C26_UnparsableNumeric ==
  Called =>
    \A a \in Unparsable :
      /\ result # NoResult
      /\ _compare_attribute(a, rfp_attrs[a], oem_attrs[a]) = 0
      /\ RecordedMismatched(a)
      /\ LET usual == calculate_match_score(weights,
                                            PlainlyDiffering(rfp_attrs, a, "rfp"),
                                            PlainlyDiffering(oem_attrs, a, "oem"))
         IN  /\ ResScore = usual.score
             /\ ResMatched = usual.matched
             /\ ResMismatched = usual.mismatched
             /\ ResMissing = usual.missing

\* the requirement's cross_section is "300mm2", which float() rejects
C26_Witness ==
  /\ pc = "matched"
  /\ rfp_attrs = [FullRec EXCEPT !.cross_section = PyStr(<<"3","0","0","m","m","2">>)]
  /\ oem_attrs = FullRec
  /\ result.match_score = 8500
  /\ result.mismatched_attributes = <<"cross_section">>
  /\ result.match_status = "close_match"

---------------------------------------------------------------------------
(* The recommendation of an item *)

\* _process_single_item returned a recommendation
Recommended == ret.op = "_process_single_item" /\ ~DidRaise(ret.out)

\* the candidates retrieved for the item of the call, in retrieval order
Retrieved ==
  similarity_search(db["A"], faiss, argsort, ret.item.rfp_spec_raw,
                    TOP_K_CANDIDATES).value

\* the scores of the retrieved candidates, by position
RetrievedScores(retrieved) ==
  Table([p \in 1..Len(retrieved) |->
           calculate_match_score(weights, ret.item.extracted_attributes,
                                 OEMProduct(retrieved[p]).specs).score])

\* how many candidates go before the one at position p: those with a higher
\* score, and those with the same score retrieved earlier
GoBefore(scores, p) ==
  Cardinality({q \in DOMAIN scores :
                 scores[q] > scores[p] \/ (scores[q] = scores[p] /\ q < p)})

\* C27: the top matches are min(3, number retrieved) results in
\* non-increasing order of score; the recommended candidate has the highest
\* score of all retrieved candidates; the i-th top match is the retrieved
\* candidate that i - 1 others go before, equal scores counted in retrieval
\* order; and column i of the comparison table shows the candidate of the
\* i-th top match.
C27_RankingPipeline ==
  Recommended =>
    \A retrieved \in {Retrieved} : \A scores \in {RetrievedScores(retrieved)} :
      LET top == ret.out.value.top_3_matches
          rows == ret.out.value.comparison_table
      IN  /\ Len(top) = IF Len(retrieved) < 3 THEN Len(retrieved) ELSE 3
          /\ \A i \in 1..(Len(top) - 1) : top[i].match_score >= top[i + 1].match_score
          /\ \A p \in 1..Len(retrieved) :
               ret.out.value.recommended_sku_score >= scores[p]
          /\ ret.out.value.recommended_sku = top[1].sku_id
          /\ ret.out.value.recommended_sku_score = top[1].match_score
          /\ \A i \in 1..Len(top) :
               \E p \in 1..Len(retrieved) :
                 /\ GoBefore(scores, p) = i - 1
                 /\ top[i].sku_id = retrieved[p]
                 /\ top[i].match_score = scores[p]
          /\ \A a \in 1..Len(rows) : \A i \in 1..Len(top) :
               rows[a].sku_values[i]
                 = Shown(DictGet(OEMProduct(top[i].sku_id).specs,
                                 rows[a].attribute_name),
                         <<"N","/","A">>)

\* two candidates with the same text and the same score, retrieved by the
\* numpy search in the order T-AL-2, T-AL-1, stay in that order ahead of
\* T-CU-1
C27_Witness ==
  /\ Recommended
  /\ faiss = FALSE
  /\ ret.item.extracted_attributes = [FullRec EXCEPT !.cross_section = None]
  /\ Retrieved = <<"T-AL-2", "T-AL-1", "T-CU-1">>
  /\ ret.out.value.top_3_matches[1].sku_id = "T-AL-2"
  /\ ret.out.value.top_3_matches[2].sku_id = "T-AL-1"
  /\ ret.out.value.top_3_matches[3].sku_id = "T-CU-1"
  /\ ret.out.value.top_3_matches[1].match_score = 10000
  /\ ret.out.value.top_3_matches[2].match_score = 10000
  /\ ret.out.value.top_3_matches[3].match_score = 8000
  /\ ret.out.value.comparison_table[2].sku_values
       = <<PyStr(<<"a","l">>), PyStr(<<"a","l">>), PyStr(<<"c","u">>)>>

\* C28: whenever the recommendation says that the product meets all RFP
\* specifications, which it says when the best match has status EXACT, the
\* match result of the recommended candidate has no mismatched attribute, no
\* missing attribute and no deviation note.
C28_ExactMeetsAll ==
  (Recommended /\ ret.out.value.top_3_matches # <<>>
     /\ ret.out.value.top_3_matches[1].match_status = "exact_match") =>
    /\ ret.out.value.recommendation_notes.says
         = "Excellent match. Product meets all RFP specifications."
    /\ ret.out.value.top_3_matches[1].sku_id = ret.out.value.recommended_sku
    /\ ret.out.value.top_3_matches[1].mismatched_attributes = <<>>
    /\ ret.out.value.top_3_matches[1].missing_attributes = <<>>
    /\ ret.out.value.top_3_matches[1].deviation_notes = <<>>

---------------------------------------------------------------------------
(* The state of an instance across load *)

\* C29: a load that returns False leaves the instance as it was: products,
\* vocabulary, idf, fitted flag, stored vectors and is_initialized, so a
\* search on it returns what it returned before the call; also when only
\* part of a snapshot is on disk.
C29_FailedLoadNoOp ==
  [][(ret = NoCall /\ ret'.op = "load" /\ ret'.out.value = FALSE) =>
       /\ db'[ret'.inst].products = db[ret'.inst].products
       /\ db'[ret'.inst].embedder = db[ret'.inst].embedder
       /\ db'[ret'.inst].index = db[ret'.inst].index
       /\ db'[ret'.inst].embeddings = db[ret'.inst].embeddings
       /\ db'[ret'.inst].is_initialized = db[ret'.inst].is_initialized
       /\ \A k \in 1..MaxK :
            similarity_search(db'[ret'.inst], faiss, argsort,
                              <<"C","u"," ","c","a","b","l","e"," ","c","u">>, k)
              = similarity_search(db[ret'.inst], faiss, argsort,
                                  <<"C","u"," ","c","a","b","l","e"," ","c","u">>, k)]_vars

\* C30: in every state reached by builds, saves, loads and searches on the
\* instances that share the snapshot path, an instance with is_initialized
\* set has a fitted embedder, a non-empty list of products and one stored
\* vector per product, at the position of the product, and a search on it
\* returns.
C30_BuiltState ==
  \A i \in Instances :
    db[i].is_initialized =>
      /\ db[i].embedder.fitted
      /\ db[i].products # <<>>
      /\ HasVectors(db[i])
      /\ Len(StoredVectors(db[i])) = Len(db[i].products)
      /\ StoredVectors(db[i]) = embed_batch(db[i].embedder, Texts(db[i].products))
      /\ \A query_text \in QueryTexts :
           ~DidRaise(similarity_search(db[i], faiss, argsort, query_text, MaxK))

====
